---- MODULE Spec2Model ----
(***************************************************************************)
(* Model of the AI Persona Writer client (class PersonaWriter): the text   *)
(* analysis engine, the persona synthesizer, the templated response        *)
(* generator and the controller state (current persona, saved personas,    *)
(* chat history, local storage, timers).                                   *)
(*                                                                         *)
(* Representation choices.                                                 *)
(*  - A JavaScript string is a TLA+ string; all text functions work on     *)
(*    its characters.                                                      *)
(*  - A JavaScript number that results from a division is the pair         *)
(*    [n, d] standing for n/d. d = 0 is a non-finite value: n = 0 is NaN,  *)
(*    n > 0 is +Infinity. Arithmetic is exact (no rounding of doubles).    *)
(*  - A TLA+ string holds ASCII only. In input text the characters of      *)
(*    EmojiChars stand for code points of the ranges matched by the emoji  *)
(*    regular expression; the emoji literals of the source are written as  *)
(*    names ("e01", "e02", ...).                                           *)
(*  - A run of the controller handles at most MaxUserActions user actions  *)
(*    (clicks and page loads); timers and pending callbacks always run.    *)
(*  - Math.random() returns r / RandRes for r in 0 .. RandRes-1. One       *)
(*    handler run reads its draws, in call order, from a stream.           *)
(***************************************************************************)
EXTENDS Integers, Sequences, FiniteSets, Bags, TLC

(***************************************************************************)
(* State                                                                   *)
(***************************************************************************)
\* The analysis engine applied to an input text (the functions analyzeText,
\* createPersona and generateResponse on their own).
VARIABLES
    inText,       \* the text under analysis (in the controller: the last text analysed)
    features,     \* analyzeText(inText), or None before the analysis
    profile,      \* the persona profile in use, or None
    profilePrev,  \* the persona of the previous synthesis of the same features
    reply,        \* the last generateResponse run: utterance, draws, response before styling, reply text
    replyAgain,   \* the reply text of a second run on the inputs of reply
    welcome,      \* the welcome message generated for profile, or None
    choices       \* the lengths of the candidate lists passed to randomChoice by the last handler run

\* The controller, class PersonaWriter (constructor, lines 8-16), the browser's
\* local storage and timers.
VARIABLES
    currentPersona,   \* this.currentPersona: None or a persona
    savedPersonas,    \* this.savedPersonas: a sequence of personas
    chatHistory,      \* this.chatHistory: a sequence of chat turns
    isAnalyzing,      \* this.isAnalyzing
    localStorage,     \* the item aiPersonaWriter_personas: None or the stored JSON value
    pendingBio,       \* the text of the generatePersona call that awaits its delay, or None
    pendingReplies,   \* the timers set by sendMessage that have not fired: their messages
    pendingStartChat, \* the number of startChat timers set by the Chat button that have not fired
    now,              \* the clock, Date.now()
    threw,            \* whether a timer callback has thrown
    userActions       \* the number of user actions (clicks, page loads) handled so far

\* The API server (Express routes of /api/personas and /s, Mongoose models):
\* the collections of the database and the requests being handled.
VARIABLES
    Persona,          \* the Persona collection: a set of documents
    ChatMessage,      \* the ChatMessage collection: a sequence of documents, in order of insertion
    ShareToken,       \* the ShareToken collection: a set of documents
    personasCreated,  \* stats.personasCreated of every user
    nextId,           \* the number of ObjectIds generated for personas so far
    inflight,         \* the handler runs that wait at an await: a bag of continuations
    res,              \* the response sent by the last step, with the request it answers, or None
    serverNow,        \* the server's clock, new Date()
    requests,         \* the number of requests received so far
    served,           \* the number of 200 responses of GET /s/:token sent so far, per token value
    userRequests,     \* the Map userRequests of an authRateLimit middleware: the timestamps kept per user
    admitted          \* the times at which that middleware has called next(), per user

(***************************************************************************)
(* Characters and strings                                                  *)
(***************************************************************************)
LowerLetters == "abcdefghijklmnopqrstuvwxyz"
UpperLetters == "ABCDEFGHIJKLMNOPQRSTUVWXYZ"
DigitChars == "0123456789"

CharAt(s, i) == SubSeq(s, i, i)

CharSet(s) == { CharAt(s, i) : i \in 1..Len(s) }

UpperSet == CharSet(UpperLetters)

\* \w of a JavaScript regular expression: [A-Za-z0-9_]
WordChars == CharSet(LowerLetters) \cup CharSet(UpperLetters) \cup CharSet(DigitChars) \cup {"_"}

\* \s of a JavaScript regular expression (the characters a model text can hold)
SpaceChars == {" ", "\t", "\n"}

IsUpper(c) == c \in UpperSet

IsWordChar(c) == c \in WordChars

IsSpace(c) == c \in SpaceChars

\* stand-ins for code points in U+2600..U+27BF (one UTF-16 unit each)
EmojiChars == {"$", "#"}

LowerChar(c) == IF IsUpper(c) THEN CharAt(LowerLetters, CHOOSE i \in 1..26 : CharAt(UpperLetters, i) = c) ELSE c

\* the characters of s, as a sequence of one-character strings
Chars(s) == [i \in 1..Len(s) |-> CharAt(s, i)]

\* the concatenation of a sequence of strings
RECURSIVE Concat(_)
Concat(ss) == IF Len(ss) = 0 THEN "" ELSE ss[1] \o Concat(Tail(ss))

toLowerCase(s) == Concat([i \in 1..Len(s) |-> LowerChar(CharAt(s, i))])

RECURSIVE TrimStart(_)
TrimStart(s) == IF Len(s) > 0 /\ IsSpace(CharAt(s, 1)) THEN TrimStart(SubSeq(s, 2, Len(s))) ELSE s

RECURSIVE TrimEnd(_)
TrimEnd(s) == IF Len(s) > 0 /\ IsSpace(CharAt(s, Len(s))) THEN TrimEnd(SubSeq(s, 1, Len(s) - 1)) ELSE s

trim(s) == TrimEnd(TrimStart(s))

\* String.prototype.includes
includes(s, sub) == \E i \in 1..(Len(s) - Len(sub) + 1) : SubSeq(s, i, i + Len(sub) - 1) = sub

\* Array.prototype.includes
arrayIncludes(arr, x) == \E i \in 1..Len(arr) : arr[i] = x

\* (s.match(/c/g) || []).length for a single character c
CountChar(s, c) == Cardinality({ i \in 1..Len(s) : CharAt(s, i) = c })

\* the k-th smallest element of a set of integers
Nth(S, k) == CHOOSE i \in S : Cardinality({ j \in S : j <= i }) = k

\* the indices 1..n that satisfy P, in ascending order
Indices(n, P(_)) == SelectSeq([i \in 1..n |-> i], P)

\* s.split(c) for a single character c: the pieces between its occurrences,
\* empty pieces included
SplitChar(s, c) ==
    LET IsSep(i) == CharAt(s, i) = c
        at == Indices(Len(s), IsSep)
        n == Len(at)
        pos(k) == IF k = 0 THEN 0 ELSE IF k = n + 1 THEN Len(s) + 1 ELSE at[k]
    IN [k \in 1..(n + 1) |-> SubSeq(s, pos(k - 1) + 1, pos(k) - 1)]

\* s.split(re).filter(piece => piece.length > 0) where re matches the maximal
\* runs of the characters of seps (/\s+/, /[.!?]+/): the maximal runs of the
\* other characters, in order
Runs(s, seps) ==
    LET IsStart(i) == CharAt(s, i) \notin seps /\ (i = 1 \/ CharAt(s, i - 1) \in seps)
        IsEnd(i) == CharAt(s, i) \notin seps /\ (i = Len(s) \/ CharAt(s, i + 1) \in seps)
        starts == Indices(Len(s), IsStart)
        ends == Indices(Len(s), IsEnd)
    IN [k \in 1..Len(starts) |-> SubSeq(s, starts[k], ends[k])]

\* arr.join(sep)
RECURSIVE join(_, _)
join(arr, sep) == IF Len(arr) = 0 THEN ""
                  ELSE IF Len(arr) = 1 THEN arr[1]
                  ELSE arr[1] \o sep \o join(Tail(arr), sep)

\* slice without its limit: the whole array
sliceAll(arr, k) == arr

\* arr.slice(0, k)
slice(arr, k) == SubSeq(arr, 1, IF Len(arr) < k THEN Len(arr) ELSE k)

\* [...new Set(arr)] and Object.keys of a frequency table with non-numeric
\* keys: first occurrences, in order
unique(arr) ==
    LET IsFirst(i) == \A j \in 1..(i - 1) : arr[j] # arr[i]
        firsts == Indices(Len(arr), IsFirst)
    IN [k \in 1..Len(firsts) |-> arr[firsts[k]]]

\* number of occurrences of x in arr
Occurrences(arr, x) == Cardinality({ i \in 1..Len(arr) : arr[i] = x })

(***************************************************************************)
(* Numbers                                                                 *)
(***************************************************************************)
Num(n, d) == [n |-> n, d |-> d]

NaN == Num(0, 0)

IsFinite(x) == x.d > 0

\* x > p/q and x < p/q as JavaScript compares them (false for NaN)
Gt(x, p, q) == IF x.d = 0 THEN x.n > 0 ELSE x.n * q > p * x.d

Lt(x, p, q) == IF x.d = 0 THEN FALSE ELSE x.n * q < p * x.d

In01(x) == x.d > 0 /\ 0 <= x.n /\ x.n <= x.d

\* Math.max(0, Math.min(1, n/d)) for d >= 0
Clamp01(n, d) == IF d = 0 THEN (IF n > 0 THEN Num(1, 1) ELSE IF n < 0 THEN Num(0, 1) ELSE NaN)
                 ELSE IF n > d THEN Num(1, 1)
                 ELSE IF n < 0 THEN Num(0, 1)
                 ELSE Num(n, d)

(***************************************************************************)
(* Text analysis engine                                                    *)
(***************************************************************************)
NonWordChars(text) == { CharAt(text, i) : i \in 1..Len(text) } \ WordChars

\* text.toLowerCase().replace(/[^\w\s]/g, ' ').split(/\s+/).filter(word =>
\* word.length > 0): after the replacement every character is a word character
\* or white space, so the words are the maximal runs of word characters
tokenize(text) ==
    LET words == Runs(text, NonWordChars(text))
    IN [k \in 1..Len(words) |-> toLowerCase(words[k])]

SentenceEnd == {".", "!", "?"}

NonBlankStr(s) == Len(trim(s)) > 0

\* a split at the full stops only, which would leave '?' and '!' in the sentences
splitSentencesAtFullStops(text) == SelectSeq(Runs(text, {"."}), NonBlankStr)

\* text.split(/[.!?]+/).filter(s => s.trim().length > 0): the pieces that the
\* split leaves empty are dropped by the filter as well
splitSentences(text) == SelectSeq(Runs(text, SentenceEnd), NonBlankStr)

positiveWords == <<"love", "enjoy", "amazing", "awesome", "great", "excellent", "wonderful",
    "fantastic", "brilliant", "incredible", "perfect", "beautiful", "happy",
    "excited", "passionate", "thrilled", "delighted", "pleased", "satisfied",
    "good", "nice", "cool", "fun", "interesting", "fascinating", "inspiring">>

negativeWords == <<"hate", "terrible", "awful", "horrible", "bad", "worst", "disappointing",
    "frustrated", "annoyed", "upset", "angry", "sad", "depressed", "boring",
    "stupid", "difficult", "problem", "issue", "concern", "worry", "fear">>

\* the forEach loops of the analyzers: the sum over the tokens of
\* wA for a token that list a includes, plus wB for one that list b includes
RECURSIVE ScoreFrom(_, _, _, _, _, _)
ScoreFrom(tokens, i, a, wA, b, wB) ==
    IF i > Len(tokens) THEN 0
    ELSE (IF arrayIncludes(a, tokens[i]) THEN wA ELSE 0)
         + (IF arrayIncludes(b, tokens[i]) THEN wB ELSE 0)
         + ScoreFrom(tokens, i + 1, a, wA, b, wB)

Score(tokens, a, wA, b, wB) == ScoreFrom(tokens, 1, a, wA, b, wB)

\* analyzeSentiment with a tie of positive and negative matches taken as positive
analyzeSentimentTiesPositive(tokens) ==
    LET positiveScore == Score(tokens, positiveWords, 1, <<>>, 0)
        negativeScore == Score(tokens, negativeWords, 1, <<>>, 0)
        netScore == positiveScore - negativeScore
        totalEmotional == positiveScore + negativeScore
        strength == IF totalEmotional * 10 < Len(tokens)
                    THEN Num(totalEmotional * 10, Len(tokens)) ELSE Num(1, 1)
    IN IF totalEmotional = 0 THEN [polarity |-> "neutral", strength |-> Num(3, 10)]
       ELSE IF netScore >= 0 THEN [polarity |-> "positive", strength |-> strength]
       ELSE [polarity |-> "negative", strength |-> strength]

analyzeSentiment(tokens) ==
    LET positiveScore == Score(tokens, positiveWords, 1, <<>>, 0)
        negativeScore == Score(tokens, negativeWords, 1, <<>>, 0)
        netScore == positiveScore - negativeScore
        totalEmotional == positiveScore + negativeScore
        strength == IF totalEmotional * 10 < Len(tokens)
                    THEN Num(totalEmotional * 10, Len(tokens)) ELSE Num(1, 1)
    IN IF totalEmotional = 0 THEN [polarity |-> "neutral", strength |-> Num(3, 10)]
       ELSE IF netScore > 0 THEN [polarity |-> "positive", strength |-> strength]
       ELSE IF netScore < 0 THEN [polarity |-> "negative", strength |-> strength]
       ELSE [polarity |-> "neutral", strength |-> strength]

formalIndicators == <<"furthermore", "moreover", "consequently", "therefore", "however",
    "nevertheless", "approximately", "significant", "substantial", "comprehensive",
    "expertise", "professional", "experience", "responsibility", "objective">>

informalIndicators == <<"yeah", "cool", "awesome", "gonna", "wanna", "kinda", "sorta",
    "hey", "yo", "dude", "buddy", "stuff", "things", "pretty",
    "really", "super", "totally", "definitely", "absolutely">>

\* a position of s where \b matches just before index i (i = Len(s)+1: the end)
WordBoundary(s, i) ==
    LET before == i > 1 /\ IsWordChar(CharAt(s, i - 1))
        after == i <= Len(s) /\ IsWordChar(CharAt(s, i))
    IN before # after

ContractionEndings == {"ll", "re", "ve", "d", "t", "s"}

\* (text.match(/'(ll|re|ve|d|t|s)\b/g) || []).length
CountContractions(text) ==
    Cardinality({ i \in 1..Len(text) :
        /\ CharAt(text, i) = "'"
        /\ \E e \in ContractionEndings :
              /\ i + Len(e) <= Len(text)
              /\ SubSeq(text, i + 1, i + Len(e)) = e
              /\ WordBoundary(text, i + Len(e) + 1) })

analyzeFormality(text, tokens) ==
    LET contractions == CountContractions(text)
        nSentences == Len(splitSentences(text))
        \* avgSentenceLength > 20, false when 0/0
        longSentences == IF nSentences = 0 THEN Len(tokens) > 0 ELSE Len(tokens) > 20 * nSentences
        \* contractionsRatio > 0.1, false when 0/0
        manyContractions == IF Len(tokens) = 0 THEN contractions > 0 ELSE 10 * contractions > Len(tokens)
        formalScore == Score(tokens, formalIndicators, 1, <<>>, 0) + (IF longSentences THEN 2 ELSE 0)
        informalScore == Score(tokens, informalIndicators, 1, <<>>, 0) + (IF manyContractions THEN 3 ELSE 0)
        total == formalScore + informalScore
    IN IF total = 0 THEN Num(1, 2) ELSE Num(formalScore, total)

highEnergyWords == <<"excited", "amazing", "awesome", "incredible", "fantastic", "brilliant",
    "love", "passion", "adventure", "explore", "discover", "create",
    "energy", "dynamic", "vibrant", "enthusiastic", "motivated">>

lowEnergyWords == <<"calm", "quiet", "peaceful", "relaxed", "gentle", "soft", "subtle",
    "comfortable", "steady", "stable", "consistent", "methodical">>

\* the count of capital words without the word boundaries: the matches of
\* /[A-Z]{2,}/g, the maximal runs of two or more capital letters
CountCapitalRuns(text) ==
    Cardinality({ i \in 1..(Len(text) - 1) :
        /\ IsUpper(CharAt(text, i)) /\ IsUpper(CharAt(text, i + 1))
        /\ (i = 1 \/ ~IsUpper(CharAt(text, i - 1))) })

\* (text.match(/\b[A-Z]{2,}\b/g) || []).length: the maximal runs of word
\* characters that are two or more capital letters and nothing else
CountCapitalWords(text) ==
    Cardinality({ i \in 1..Len(text) :
        /\ IsWordChar(CharAt(text, i))
        /\ (i = 1 \/ ~IsWordChar(CharAt(text, i - 1)))
        /\ \E j \in (i + 1)..Len(text) :
              /\ \A k \in i..j : IsUpper(CharAt(text, k))
              /\ (j = Len(text) \/ ~IsWordChar(CharAt(text, j + 1))) })

analyzeEnergy(text, tokens) ==
    LET exclamations == CountChar(text, "!")
        capitalWords == CountCapitalWords(text)
        energyScore == Score(tokens, highEnergyWords, 2, lowEnergyWords, -1)
                       + exclamations * 2 + capitalWords
    IN Clamp01(10 * energyScore + 3 * Len(tokens), 8 * Len(tokens))

topicNames == <<"technology", "creativity", "business", "lifestyle", "entertainment", "education">>

topicKeywords == [
    technology |-> <<"tech", "computer", "software", "programming", "code", "digital", "ai", "data">>,
    creativity |-> <<"creative", "art", "design", "music", "writing", "imagination", "artistic">>,
    business |-> <<"business", "management", "leadership", "strategy", "marketing", "finance">>,
    lifestyle |-> <<"travel", "food", "fitness", "health", "family", "friends", "hobbies">>,
    entertainment |-> <<"movies", "games", "books", "tv", "sports", "music", "shows">>,
    education |-> <<"learning", "education", "teaching", "study", "knowledge", "research">>]

\* the sum over the keywords of tokens.filter(token => token.includes(keyword)).length
RECURSIVE KeywordHits(_, _)
KeywordHits(tokens, keywords) ==
    IF Len(keywords) = 0 THEN 0
    ELSE Cardinality({ i \in 1..Len(tokens) : includes(tokens[i], keywords[1]) })
         + KeywordHits(tokens, Tail(keywords))

\* Array.prototype.sort((a, b) => b[1] - a[1]) on [key, score] entries: stable,
\* descending by score
sortByScoreDesc(entries) ==
    LET before(i) == { j \in 1..Len(entries) :
                         \/ entries[j].score > entries[i].score
                         \/ entries[j].score = entries[i].score /\ j < i }
    IN [k \in 1..Len(entries) |->
          entries[CHOOSE i \in 1..Len(entries) : Cardinality(before(i)) = k - 1]]

\* the filter of extractTopics with zero scores let through
PositiveScoreOrZero(e) == e.score >= 0

PositiveScore(e) == e.score > 0

extractTopics(tokens) ==
    LET topicScores == [i \in 1..Len(topicNames) |->
                          [key |-> topicNames[i], score |-> KeywordHits(tokens, topicKeywords[topicNames[i]])]]
        top == SelectSeq(slice(sortByScoreDesc(topicScores), 3), PositiveScore)
    IN [i \in 1..Len(top) |-> top[i].key]

\* the value of a string of digits
RECURSIVE NumVal(_)
NumVal(s) == IF Len(s) = 0 THEN 0
             ELSE 10 * NumVal(SubSeq(s, 1, Len(s) - 1))
                  + (CHOOSE v \in 0..9 : CharAt(DigitChars, v + 1) = CharAt(s, Len(s)))

\* a property key that is an array index: a canonical numeric string of value
\* at most 2^32 - 2 = 42949 67294 (compared in two halves of five digits)
IsIndexKey(s) ==
    /\ Len(s) > 0 /\ Len(s) <= 10
    /\ \A i \in 1..Len(s) : CharAt(s, i) \in CharSet(DigitChars)
    /\ (Len(s) = 1 \/ CharAt(s, 1) # "0")
    /\ \/ Len(s) < 10
       \/ NumVal(SubSeq(s, 1, 5)) < 42949
       \/ NumVal(SubSeq(s, 1, 5)) = 42949 /\ NumVal(SubSeq(s, 6, 10)) <= 67294

\* the order of two array-index keys
IndexLess(a, b) ==
    \/ Len(a) < Len(b)
    \/ /\ Len(a) = Len(b)
       /\ \E i \in 1..Len(a) :
             /\ SubSeq(a, 1, i - 1) = SubSeq(b, 1, i - 1)
             /\ NumVal(CharAt(a, i)) < NumVal(CharAt(b, i))

\* distinct array-index keys in ascending order
sortByIndex(keys) ==
    [k \in 1..Len(keys) |->
        keys[CHOOSE i \in 1..Len(keys) :
                Cardinality({ j \in 1..Len(keys) : IndexLess(keys[j], keys[i]) }) = k - 1]]

NotIndexKey(s) == ~IsIndexKey(s)

\* Object.keys / Object.entries order of an object filled in the order of arr:
\* the array-index keys ascending, then the other keys in insertion order
objectKeys(arr) ==
    LET keys == unique(arr)
    IN sortByIndex(SelectSeq(keys, IsIndexKey)) \o SelectSeq(keys, NotIndexKey)

\* the keys that the empty object literal wordFreq inherits and a lower-case
\* token can name: wordFreq[token] || 0 is then not 0 but the inherited value,
\* the sum is a string and never a frequency greater than 1 ("__proto__" is
\* not even stored)
inheritedKeys == {"constructor", "__proto__"}

IsFrequent(e) == e.score > 1 /\ Len(e.key) > 3 /\ e.key \notin inheritedKeys

analyzeVocabulary(tokens) ==
    LET keys == objectKeys(tokens)
        wordFreq == [i \in 1..Len(keys) |-> [key |-> keys[i], score |-> Occurrences(tokens, keys[i])]]
        frequent == slice(sortByScoreDesc(SelectSeq(wordFreq, IsFrequent)), 8)
    IN [richness |-> Num(Len(keys), Len(tokens)),
        frequentWords |-> [i \in 1..Len(frequent) |-> frequent[i].key]]

\* the matches of /c{2,}/g: the maximal runs of two or more c
CountLongRuns(s, c) ==
    Cardinality({ i \in 1..(Len(s) - 1) :
        /\ CharAt(s, i) = c /\ CharAt(s, i + 1) = c
        /\ (i = 1 \/ CharAt(s, i - 1) # c) })

\* the matches of /cc?/g: in a maximal run of c, every second c starts a match
CountPairs(s, c) ==
    Cardinality({ i \in 1..Len(s) :
        /\ CharAt(s, i) = c
        /\ LET start == CHOOSE j \in 1..i :
                           /\ \A k \in j..i : CharAt(s, k) = c
                           /\ (j = 1 \/ CharAt(s, j - 1) # c)
           IN (i - start) % 2 = 0 })

determinePunctuationStyle(counts) ==
    IF counts.exclamation > 2 THEN "enthusiastic"
    ELSE IF counts.question > 2 THEN "inquisitive"
    ELSE IF counts.ellipsis > 1 THEN "contemplative"
    ELSE IF counts.dash > 1 THEN "expressive"
    ELSE "standard"

analyzePunctuation(text) ==
    LET punctuationCounts == [exclamation |-> CountChar(text, "!"),
                              question |-> CountChar(text, "?"),
                              ellipsis |-> CountLongRuns(text, "."),
                              dash |-> CountPairs(text, "-")]
        totalPunctuation == punctuationCounts.exclamation + punctuationCounts.question
                            + punctuationCounts.ellipsis + punctuationCounts.dash
    IN [density |-> Num(totalPunctuation, Len(text)),
        style |-> determinePunctuationStyle(punctuationCounts)]

IsEmoji(c) == c \in EmojiChars

analyzeEmojis(text) ==
    LET emojis == SelectSeq(Chars(text), IsEmoji)
        keys == unique(emojis)
    IN [count |-> Len(emojis),
        unique |-> Len(keys),
        favorites |-> slice(keys, 5),
        density |-> Num(Len(emojis), Len(text))]

HasQuestionMark(s) == includes(s, "?")

HasExclamationMark(s) == includes(s, "!")

analyzeQuestions(sentences) == Num(Len(SelectSeq(sentences, HasQuestionMark)), Len(sentences))

analyzeExclamations(sentences) == Num(Len(SelectSeq(sentences, HasExclamationMark)), Len(sentences))

analyzeText(text) ==
    LET tokens == tokenize(text)
        sentences == splitSentences(text)
    IN [wordCount |-> Len(tokens),
        sentenceCount |-> Len(sentences),
        avgWordsPerSentence |-> Num(Len(tokens), Len(sentences)),
        sentiment |-> analyzeSentiment(tokens),
        formality |-> analyzeFormality(text, tokens),
        energy |-> analyzeEnergy(text, tokens),
        topics |-> extractTopics(tokens),
        vocabulary |-> analyzeVocabulary(tokens),
        punctuationStyle |-> analyzePunctuation(text),
        emojiUsage |-> analyzeEmojis(text),
        questionRatio |-> analyzeQuestions(sentences),
        exclamationRatio |-> analyzeExclamations(sentences),
        originalText |-> text]


(***************************************************************************)
(* Random source                                                           *)
(***************************************************************************)
\* Math.random() returns one of 0/RandRes .. (RandRes-1)/RandRes
RandRes == 10

\* the number of draws one handler run can make
MaxDraws == 10

StreamSteps == {1, 3}

\* the streams of draws a handler run may receive: stream[i] is the numerator
\* of the i-th value that Math.random() returns during the run
Streams == { [i \in 1..MaxDraws |-> (seed + (i - 1) * step) % RandRes] :
                seed \in 0..(RandRes - 1), step \in StreamSteps }

Undefined == "undefined"

\* array[Math.floor(Math.random() * array.length)] for Math.random() = r / RandRes
randomChoice(array, r) ==
    IF Len(array) = 0 THEN Undefined ELSE array[(r * Len(array)) \div RandRes + 1]

\* Math.random() < p/q for Math.random() = r / RandRes
RandomBelow(r, p, q) == r * q < p * RandRes

(***************************************************************************)
(* Persona synthesizer                                                     *)
(***************************************************************************)
namePrefixes == [
    high_energy |-> <<"Spark", "Blaze", "Dash", "Flash", "Volt", "Zap">>,
    low_energy |-> <<"Zen", "Calm", "Sage", "Peace", "Gentle", "Quiet">>,
    creative |-> <<"Dream", "Vision", "Art", "Muse", "Pixel", "Canvas">>,
    professional |-> <<"Pro", "Elite", "Prime", "Expert", "Alpha", "Chief">>,
    friendly |-> <<"Buddy", "Sunny", "Happy", "Joy", "Bright", "Cheer">>]

nameSuffixes == [
    technology |-> <<"Tech", "Bot", "Byte", "Code", "Data", "Sync">>,
    creativity |-> <<"Art", "Craft", "Draw", "Write", "Make", "Create">>,
    business |-> <<"Pro", "Lead", "Boss", "Chief", "Head", "Star">>,
    lifestyle |-> <<"Life", "Style", "Vibe", "Flow", "Wave", "Soul">>,
    entertainment |-> <<"Fun", "Play", "Game", "Show", "Joy", "Laugh">>]

\* primaryTopic && nameComponents.suffixes[primaryTopic]
HasSuffixList(analysis) ==
    Len(analysis.topics) > 0 /\ analysis.topics[1] \in DOMAIN nameSuffixes

\* the candidate lists of the randomChoice calls of generatePersonaName, in call order
nameChoices(analysis) ==
    << IF Gt(analysis.energy, 7, 10) THEN namePrefixes.high_energy
       ELSE IF Lt(analysis.energy, 3, 10) THEN namePrefixes.low_energy
       ELSE IF arrayIncludes(analysis.topics, "creativity") THEN namePrefixes.creative
       ELSE IF Gt(analysis.formality, 7, 10) THEN namePrefixes.professional
       ELSE namePrefixes.friendly >>
    \o (IF HasSuffixList(analysis) THEN <<nameSuffixes[analysis.topics[1]]>> ELSE <<>>)

\* rnd: the stream of draws, k: the index of the next draw
generatePersonaName(analysis, rnd, k) ==
    LET lists == nameChoices(analysis)
        prefix == randomChoice(lists[1], rnd[k])
        suffix == IF Len(lists) > 1 THEN randomChoice(lists[2], rnd[k + 1]) ELSE "Mind"
    IN prefix \o suffix

mapTraits(analysis) ==
    LET traits ==
           (IF Gt(analysis.formality, 7, 10) THEN <<"Professional">>
            ELSE IF Lt(analysis.formality, 3, 10) THEN <<"Casual">>
            ELSE <<"Balanced">>)
        \o (IF Gt(analysis.energy, 7, 10) THEN <<"Energetic">>
            ELSE IF Lt(analysis.energy, 3, 10) THEN <<"Calm">>
            ELSE <<"Moderate">>)
        \o (IF Gt(analysis.sentiment.strength, 1, 2)
            THEN (IF analysis.sentiment.polarity = "positive" THEN <<"Optimistic">> ELSE <<"Thoughtful">>)
            ELSE <<>>)
        \o (IF Gt(analysis.questionRatio, 3, 10) THEN <<"Curious">> ELSE <<>>)
        \o (IF Gt(analysis.exclamationRatio, 3, 10) THEN <<"Expressive">> ELSE <<>>)
        \o (IF arrayIncludes(analysis.topics, "creativity") THEN <<"Creative">> ELSE <<>>)
        \o (IF arrayIncludes(analysis.topics, "technology") THEN <<"Tech-Savvy">> ELSE <<>>)
        \o (IF arrayIncludes(analysis.topics, "business") THEN <<"Strategic">> ELSE <<>>)
        \o (IF Gt(analysis.vocabulary.richness, 7, 10) THEN <<"Articulate">> ELSE <<>>)
    IN slice(traits, 5)

phraseTemplates == [
    high_energy |-> <<"Let's make it happen!", "That's absolutely amazing!", "I'm so excited about this!",
        "This is going to be incredible!", "Let's dive right in!">>,
    low_energy |-> <<"Let's think about this carefully.", "That's quite interesting.", "I see what you mean.",
        "That makes a lot of sense.", "Let's consider the options.">>,
    formal |-> <<"I believe we should consider...", "In my professional opinion...",
        "Based on my experience...", "Let's approach this systematically.",
        "The optimal solution would be...">>,
    informal |-> <<"Yeah, totally!", "That's pretty cool!", "I'm really into that!",
        "Sounds awesome to me!", "That's exactly what I mean!">>,
    positive |-> <<"I love that idea!", "That sounds fantastic!", "This is going great!",
        "Perfect! That's exactly right!", "I'm really enjoying this!">>,
    creativity |-> <<"Let's think outside the box!", "That's so creative!", "I'm inspired by that!",
        "What if we tried something different?", "Creativity is everything!">>,
    technology |-> <<"That's technically fascinating!", "Let's optimize this!", "The future is here!",
        "Innovation at its finest!", "Technology makes everything possible!">>]

\* s.trim().split(' ').length < 8 && s.length > 10
IsShortSentence(s) == Len(SplitChar(trim(s), " ")) < 8 /\ Len(s) > 10

shortSentences(originalText) == SelectSeq(splitSentences(originalText), IsShortSentence)

\* the candidate lists of the randomChoice calls of generateSignaturePhrases,
\* in call order; extracted marks the list taken from the source text
phraseChoices(analysis, originalText) ==
    LET T(list) == <<[from |-> list, extracted |-> FALSE]>>
    IN (IF Gt(analysis.energy, 7, 10) THEN T(phraseTemplates.high_energy)
        ELSE IF Lt(analysis.energy, 3, 10) THEN T(phraseTemplates.low_energy)
        ELSE <<>>)
    \o (IF Gt(analysis.formality, 7, 10) THEN T(phraseTemplates.formal)
        ELSE IF Lt(analysis.formality, 3, 10) THEN T(phraseTemplates.informal)
        ELSE <<>>)
    \o (IF analysis.sentiment.polarity = "positive" THEN T(phraseTemplates.positive) ELSE <<>>)
    \o (IF arrayIncludes(analysis.topics, "creativity") THEN T(phraseTemplates.creativity) ELSE <<>>)
    \o (IF arrayIncludes(analysis.topics, "technology") THEN T(phraseTemplates.technology) ELSE <<>>)
    \o (IF Len(shortSentences(originalText)) > 0
        THEN <<[from |-> shortSentences(originalText), extracted |-> TRUE]>>
        ELSE <<>>)

\* generateSignaturePhrases with a limit of 3 or 4 phrases that a draw decides
generateSignaturePhrasesDrawnLimit(analysis, originalText, rnd, k) ==
    LET lists == phraseChoices(analysis, originalText)
        phrases == [i \in 1..Len(lists) |->
                      LET choice == randomChoice(lists[i].from, rnd[k + i - 1])
                      IN IF lists[i].extracted THEN trim(choice) ELSE choice]
    IN slice(phrases, IF RandomBelow(rnd[k], 1, 2) THEN 3 ELSE 4)

generateSignaturePhrases(analysis, originalText, rnd, k) ==
    LET lists == phraseChoices(analysis, originalText)
        phrases == [i \in 1..Len(lists) |->
                      LET choice == randomChoice(lists[i].from, rnd[k + i - 1])
                      IN IF lists[i].extracted THEN trim(choice) ELSE choice]
    IN slice(phrases, 4)

\* the emoji literals of the source are named e01, e02, ... in the order of their
\* first occurrence in determineEmojiStyle and selectAvatar: equal literals have
\* equal names, and no literal contains a space
emojiSets == [
    high_energy |-> <<"e01", "e02", "e03", "e04", "e05", "e06">>,
    low_energy |-> <<"e07", "e08", "e09", "e10", "e11", "e12">>,
    moderate |-> <<"e13", "e14", "e15", "e16", "e17", "e18">>,
    creativity |-> <<"e19", "e20", "e21", "e22", "e23", "e24">>,
    technology |-> <<"e25", "e26", "e27", "e28", "e29", "e30">>,
    lifestyle |-> <<"e31", "e32", "e08", "e33", "e34", "e35">>,
    positive |-> <<"e36", "e37", "e38", "e39", "e40", "e41">>]

\* a variant of determineEmojiStyle that takes the first eight emojis
determineEmojiStyleEight(analysis) ==
    LET emojiSet ==
           (IF Gt(analysis.energy, 7, 10) THEN emojiSets.high_energy
            ELSE IF Lt(analysis.energy, 3, 10) THEN emojiSets.low_energy
            ELSE emojiSets.moderate)
        \o (IF arrayIncludes(analysis.topics, "creativity") THEN emojiSets.creativity ELSE <<>>)
        \o (IF arrayIncludes(analysis.topics, "technology") THEN emojiSets.technology ELSE <<>>)
        \o (IF arrayIncludes(analysis.topics, "lifestyle") THEN emojiSets.lifestyle ELSE <<>>)
        \o (IF analysis.sentiment.polarity = "positive" THEN emojiSets.positive ELSE <<>>)
        \o (IF Len(analysis.emojiUsage.favorites) > 0 THEN analysis.emojiUsage.favorites ELSE <<>>)
    IN join(slice(unique(emojiSet), 8), " ")

determineEmojiStyle(analysis) ==
    LET emojiSet ==
           (IF Gt(analysis.energy, 7, 10) THEN emojiSets.high_energy
            ELSE IF Lt(analysis.energy, 3, 10) THEN emojiSets.low_energy
            ELSE emojiSets.moderate)
        \o (IF arrayIncludes(analysis.topics, "creativity") THEN emojiSets.creativity ELSE <<>>)
        \o (IF arrayIncludes(analysis.topics, "technology") THEN emojiSets.technology ELSE <<>>)
        \o (IF arrayIncludes(analysis.topics, "lifestyle") THEN emojiSets.lifestyle ELSE <<>>)
        \o (IF analysis.sentiment.polarity = "positive" THEN emojiSets.positive ELSE <<>>)
        \o (IF Len(analysis.emojiUsage.favorites) > 0 THEN analysis.emojiUsage.favorites ELSE <<>>)
    IN join(slice(unique(emojiSet), 6), " ")

avatars == [
    creative |-> <<"e19", "e21", "e23", "e03", "e22", "e40">>,
    technology |-> <<"e26", "e25", "e02", "e42", "e43", "e29">>,
    professional |-> <<"e44", "e45", "e17", "e46", "e47", "e48">>,
    friendly |-> <<"e13", "e15", "e49", "e38", "e50", "e51">>,
    energetic |-> <<"e01", "e02", "e06", "e05", "e15", "e18">>,
    calm |-> <<"e07", "e10", "e08", "e09", "e12", "e11">>]

\* the candidate list of the randomChoice call of selectAvatar
avatarChoices(analysis) ==
    << IF arrayIncludes(analysis.topics, "creativity") THEN avatars.creative
       ELSE IF arrayIncludes(analysis.topics, "technology") THEN avatars.technology
       ELSE IF Gt(analysis.formality, 7, 10) THEN avatars.professional
       ELSE IF Gt(analysis.energy, 7, 10) THEN avatars.energetic
       ELSE IF Lt(analysis.energy, 3, 10) THEN avatars.calm
       ELSE avatars.friendly >>

selectAvatar(analysis, rnd, k) == randomChoice(avatarChoices(analysis)[1], rnd[k])

defaultTagline == "Bringing unique perspective to every conversation."

taglines == [key \in {"creative_high_energy", "creative_low_energy", "tech_high_energy",
                      "tech_low_energy", "professional_high_energy", "professional_low_energy",
                      "friendly_high_energy", "friendly_low_energy", "default"} |->
    CASE key = "creative_high_energy" -> "Turning imagination into reality with boundless creativity!"
      [] key = "creative_low_energy" -> "Crafting thoughtful art with serene inspiration."
      [] key = "tech_high_energy" -> "Coding the future with unstoppable innovation!"
      [] key = "tech_low_energy" -> "Building tomorrow's solutions with methodical precision."
      [] key = "professional_high_energy" -> "Leading dynamic teams to extraordinary results!"
      [] key = "professional_low_energy" -> "Delivering excellence through strategic thinking."
      [] key = "friendly_high_energy" -> "Spreading joy and positive energy everywhere!"
      [] key = "friendly_low_energy" -> "Creating meaningful connections with gentle wisdom."
      [] OTHER -> defaultTagline]

\* a variant of generateTagline that looks the topic label up under the name
\* the table uses for it
generateTaglineByTableName(analysis) ==
    LET primaryTopic == IF Len(analysis.topics) = 0 THEN "default"
                        ELSE IF analysis.topics[1] = "technology" THEN "tech"
                        ELSE IF analysis.topics[1] = "creativity" THEN "creative"
                        ELSE analysis.topics[1]
        energyLevel == IF Gt(analysis.energy, 6, 10) THEN "high_energy" ELSE "low_energy"
        key == primaryTopic \o "_" \o energyLevel
    IN IF key \in DOMAIN taglines THEN taglines[key] ELSE taglines["default"]

generateTagline(analysis) ==
    LET primaryTopic == IF Len(analysis.topics) > 0 THEN analysis.topics[1] ELSE "default"
        energyLevel == IF Gt(analysis.energy, 6, 10) THEN "high_energy" ELSE "low_energy"
        key == primaryTopic \o "_" \o energyLevel
    IN IF key \in DOMAIN taglines THEN taglines[key] ELSE taglines["default"]

\* Date.now().toString(36) + Math.random().toString(36).substr(2): the time
\* part has a fixed width, so the id is the pair of the clock value and the draw
generateId(clock, r) == [time |-> clock, rand |-> r]

\* the candidate lists of all randomChoice calls of createPersona, in call order
createPersonaChoices(analysis, originalText) ==
    LET phraseLists == phraseChoices(analysis, originalText)
    IN nameChoices(analysis)
       \o [i \in 1..Len(phraseLists) |-> phraseLists[i].from]
       \o avatarChoices(analysis)

createPersona(analysis, originalText, rnd, clock) ==
    LET kPhrases == 1 + Len(nameChoices(analysis))
        kAvatar == kPhrases + Len(phraseChoices(analysis, originalText))
        kId == kAvatar + 1
    IN [id |-> generateId(clock, rnd[kId]),
        name |-> generatePersonaName(analysis, rnd, 1),
        avatar |-> selectAvatar(analysis, rnd, kAvatar),
        tagline |-> generateTagline(analysis),
        traits |-> mapTraits(analysis),
        signaturePhrases |-> generateSignaturePhrases(analysis, originalText, rnd, kPhrases),
        favoriteWords |-> slice(analysis.vocabulary.frequentWords, 6),
        emojiStyle |-> determineEmojiStyle(analysis),
        communicationStyle |-> [formality |-> analysis.formality,
                                energy |-> analysis.energy,
                                sentiment |-> analysis.sentiment.polarity,
                                topics |-> analysis.topics],
        createdAt |-> clock,
        analysisData |-> analysis]

(***************************************************************************)
(* Response generator                                                      *)
(***************************************************************************)
questionWords == <<"what", "how", "why", "when", "where", "who", "which">>

answerTemplates == [
    what |-> <<"That's a great question! From my perspective,",
               "I think what's really important here is",
               "You know, I've always believed that",
               "That's something I've thought about, and">>,
    how |-> <<"Here's how I see it:",
              "My approach would be to",
              "I've found that the best way is",
              "From my experience, you can">>,
    why |-> <<"That's because",
              "The reason I think that is",
              "Well, in my opinion",
              "I believe it's because">>,
    general |-> <<"That's an interesting question!",
                  "Let me think about that...",
                  "You know what?",
                  "Here's what I think:">>]

\* the question type taken in the order of the utterance: the first token that
\* is a question word
questionTypeOfFirstToken(userTokens) ==
    LET found == { i \in 1..Len(userTokens) : arrayIncludes(questionWords, userTokens[i]) }
    IN IF found = {} THEN "general" ELSE userTokens[Nth(found, 1)]

\* questionWords.find(word => userTokens.includes(word)) || 'general'
questionTypeOf(userTokens) ==
    LET found == { i \in 1..Len(questionWords) : arrayIncludes(userTokens, questionWords[i]) }
    IN IF found = {} THEN "general" ELSE questionWords[Nth(found, 1)]

\* answerTemplates[questionType] || answerTemplates.general
answerChoices(userTokens) ==
    LET questionType == questionTypeOf(userTokens)
    IN IF questionType \in DOMAIN answerTemplates
       THEN answerTemplates[questionType] ELSE answerTemplates.general

elaborations == [
    technology |-> <<"Technology is constantly evolving and shaping our future.",
                     "The digital world offers incredible possibilities.",
                     "Innovation drives progress in amazing ways.",
                     "Tech solutions can solve so many problems.">>,
    creativity |-> <<"Creativity is the spark that ignites amazing ideas.",
                     "Art and imagination make life so much richer.",
                     "There's beauty in every creative expression.",
                     "Thinking outside the box opens new possibilities.">>,
    business |-> <<"Strategic thinking is key to success.",
                   "Leadership requires both vision and execution.",
                   "Effective planning makes all the difference.",
                   "Professional growth comes from continuous learning.">>,
    lifestyle |-> <<"Life is all about finding balance and joy.",
                    "Personal experiences shape who we become.",
                    "Every day brings new opportunities.",
                    "It's important to enjoy the journey.">>]

NoTopic == "(none)"

\* the relevant topic taken to be the persona's first topic, whatever the tokens
relevantTopicOfDominant(userTokens, persona) ==
    LET topics == persona.communicationStyle.topics
    IN IF Len(topics) = 0 THEN NoTopic ELSE topics[1]

\* topics.find(topic => userTokens.some(token => token.includes(topic)))
relevantTopicOf(userTokens, persona) ==
    LET topics == persona.communicationStyle.topics
        found == { i \in 1..Len(topics) : \E j \in 1..Len(userTokens) : includes(userTokens[j], topics[i]) }
    IN IF found = {} THEN NoTopic ELSE topics[Nth(found, 1)]

\* the candidate list of the randomChoice call of generateElaboration, if it makes one
elaborationChoices(userTokens, persona) ==
    LET relevantTopic == relevantTopicOf(userTokens, persona)
    IN IF relevantTopic # NoTopic /\ relevantTopic \in DOMAIN elaborations
       THEN <<elaborations[relevantTopic]>>
       ELSE IF Len(persona.favoriteWords) > 0 THEN <<persona.favoriteWords>>
       ELSE <<>>

generateElaboration(userTokens, persona, rnd, k) ==
    LET relevantTopic == relevantTopicOf(userTokens, persona)
        lists == elaborationChoices(userTokens, persona)
    IN IF relevantTopic # NoTopic /\ relevantTopic \in DOMAIN elaborations
       THEN randomChoice(lists[1], rnd[k])
       ELSE IF Len(persona.favoriteWords) > 0
       THEN "I think " \o randomChoice(lists[1], rnd[k]) \o " is really important in this context."
       ELSE "It's all about perspective and finding what works best!"

generateAnswerResponse(userMessage, userTokens, persona, rnd, k) ==
    LET template == randomChoice(answerChoices(userTokens), rnd[k])
        elaboration == generateElaboration(userTokens, persona, rnd, k + 1)
    IN template \o " " \o elaboration

reactionTemplates == [
    positive |-> <<"I love that!",
                   "That sounds amazing!",
                   "Absolutely!",
                   "That's fantastic!",
                   "I'm so glad you mentioned that!">>,
    negative |-> <<"I understand what you mean.",
                   "That can be challenging.",
                   "I hear you on that.",
                   "That's tough to deal with.",
                   "I get where you're coming from.">>,
    neutral |-> <<"Interesting!",
                  "That's a good point.",
                  "I see what you're saying.",
                  "That makes sense.",
                  "Tell me more about that.">>]

followUps == <<"What's your take on that?",
               "Have you experienced something similar?",
               "I'd love to hear more about your thoughts.",
               "What do you think about it?",
               "How do you see it from your perspective?",
               "What's been your experience with that?">>

enthusiasmLine == "I find that really exciting to think about!"

reflectiveLines == <<"That's something worth considering.",
                     "It's always interesting to explore different ideas.",
                     "There's so much to learn from different perspectives.">>

\* generateFollowUp with the test for Expressive or Energetic before the test for Curious
followUpChoicesExpressiveFirst(persona) ==
    IF arrayIncludes(persona.traits, "Expressive") \/ arrayIncludes(persona.traits, "Energetic") THEN <<>>
    ELSE IF arrayIncludes(persona.traits, "Curious") THEN <<followUps>>
    ELSE <<reflectiveLines>>

\* the candidate list of the randomChoice call of generateFollowUp, if it makes one
followUpChoices(persona) ==
    IF arrayIncludes(persona.traits, "Curious") THEN <<followUps>>
    ELSE IF arrayIncludes(persona.traits, "Expressive") \/ arrayIncludes(persona.traits, "Energetic") THEN <<>>
    ELSE <<reflectiveLines>>

generateFollowUp(userTokens, persona, rnd, k) ==
    LET lists == followUpChoices(persona)
    IN IF Len(lists) = 0 THEN enthusiasmLine ELSE randomChoice(lists[1], rnd[k])

reactionChoices(sentiment) ==
    IF sentiment.polarity = "positive" THEN reactionTemplates.positive
    ELSE IF sentiment.polarity = "negative" THEN reactionTemplates.negative
    ELSE reactionTemplates.neutral

generateReactiveResponse(userMessage, userTokens, sentiment, persona, rnd, k) ==
    LET reaction == randomChoice(reactionChoices(sentiment), rnd[k])
        followUp == generateFollowUp(userTokens, persona, rnd, k + 1)
    IN reaction \o " " \o followUp

\* response.replace(/\bpat\b/gi, rep) from index from on: pat (in lower case)
\* begins and ends with a word character
RECURSIVE ReplaceFrom(_, _, _, _)
ReplaceFrom(s, from, pat, rep) ==
    LET matches == { i \in from..(Len(s) - Len(pat) + 1) :
                       /\ toLowerCase(SubSeq(s, i, i + Len(pat) - 1)) = pat
                       /\ WordBoundary(s, i)
                       /\ WordBoundary(s, i + Len(pat)) }
    IN IF matches = {} THEN SubSeq(s, from, Len(s))
       ELSE LET i == Nth(matches, 1)
            IN SubSeq(s, from, i - 1) \o rep \o ReplaceFrom(s, i + Len(pat), pat, rep)

replaceWord(s, pat, rep) == ReplaceFrom(s, 1, pat, rep)

\* makeFormal without its first replacement
makeFormalKeepingThats(response) ==
    replaceWord(replaceWord(replaceWord(replaceWord(response,
        "can't", "cannot"), "won't", "will not"), "i'm", "I am"), "you're", "you are")

makeFormal(response) ==
    replaceWord(replaceWord(replaceWord(replaceWord(replaceWord(response,
        "that's", "that is"), "can't", "cannot"), "won't", "will not"), "i'm", "I am"), "you're", "you are")

makeInformal(response) ==
    replaceWord(replaceWord(replaceWord(replaceWord(replaceWord(response,
        "that is", "that's"), "cannot", "can't"), "will not", "won't"), "i am", "I'm"), "you are", "you're")

\* the response after the formality and energy steps of applyPersonaStyle
styleBase(response, persona) ==
    LET formalized == IF Gt(persona.communicationStyle.formality, 7, 10) THEN makeFormal(response)
                      ELSE IF Lt(persona.communicationStyle.formality, 3, 10) THEN makeInformal(response)
                      ELSE response
    IN IF Gt(persona.communicationStyle.energy, 7, 10) /\ ~includes(formalized, "!")
       THEN formalized \o "!" ELSE formalized

\* the condition of the signature phrase without its test for an empty list
AddsPhraseUnguarded(persona, rnd, k) == RandomBelow(rnd[k], 3, 10)

\* Math.random() < 0.3 && persona.signaturePhrases.length > 0, on draw k
AddsPhrase(persona, rnd, k) == RandomBelow(rnd[k], 3, 10) /\ Len(persona.signaturePhrases) > 0

\* the index of the draw of the second Math.random() of applyPersonaStyle
EmojiDraw(persona, rnd, k) == IF AddsPhrase(persona, rnd, k) THEN k + 2 ELSE k + 1

\* Math.random() < 0.4 && persona.emojiStyle
AddsEmoji(persona, rnd, k) == RandomBelow(rnd[EmojiDraw(persona, rnd, k)], 4, 10) /\ Len(persona.emojiStyle) > 0

\* the candidate lists of the randomChoice calls of applyPersonaStyle, in call order
styleChoices(persona, rnd, k) ==
    (IF AddsPhrase(persona, rnd, k) THEN <<persona.signaturePhrases>> ELSE <<>>)
    \o (IF AddsEmoji(persona, rnd, k) THEN <<SplitChar(persona.emojiStyle, " ")>> ELSE <<>>)

applyPersonaStyle(response, persona, rnd, k) ==
    LET withPhrase == IF AddsPhrase(persona, rnd, k)
                      THEN styleBase(response, persona) \o " " \o randomChoice(persona.signaturePhrases, rnd[k + 1])
                      ELSE styleBase(response, persona)
        e == EmojiDraw(persona, rnd, k)
    IN IF AddsEmoji(persona, rnd, k)
       THEN withPhrase \o " " \o randomChoice(SplitChar(persona.emojiStyle, " "), rnd[e + 1])
       ELSE withPhrase

\* the candidate lists of the randomChoice calls made before applyPersonaStyle
bodyChoices(persona, userMessage) ==
    LET userTokens == tokenize(toLowerCase(userMessage))
    IN IF includes(userMessage, "?")
       THEN <<answerChoices(userTokens)>> \o elaborationChoices(userTokens, persona)
       ELSE <<reactionChoices(analyzeSentiment(userTokens))>> \o followUpChoices(persona)

\* the candidate lists of all randomChoice calls of generateResponse, in call order
responseChoices(persona, userMessage, rnd) ==
    LET body == bodyChoices(persona, userMessage)
    IN body \o styleChoices(persona, rnd, Len(body) + 1)

\* the variable response of generateResponse before applyPersonaStyle
unstyledResponse(persona, userMessage, rnd) ==
    LET userTokens == tokenize(toLowerCase(userMessage))
        isQuestion == includes(userMessage, "?")
        sentiment == analyzeSentiment(userTokens)
    IN IF isQuestion
       THEN generateAnswerResponse(userMessage, userTokens, persona, rnd, 1)
       ELSE generateReactiveResponse(userMessage, userTokens, sentiment, persona, rnd, 1)

\* generateResponse for a current persona that is not null
generateResponse(persona, userMessage, rnd) ==
    applyPersonaStyle(unstyledResponse(persona, userMessage, rnd), persona, rnd,
                      Len(bodyChoices(persona, userMessage)) + 1)

\* generateWelcomeMessage for a current persona that is not null
welcomeTemplates(persona) ==
    << "Hey there! I'm " \o persona.name \o ". "
          \o (IF Len(persona.signaturePhrases) > 0 /\ persona.signaturePhrases[1] # ""
              THEN persona.signaturePhrases[1] ELSE "Great to meet you!"),
       "Hello! " \o persona.name \o " here. Ready for an interesting conversation?",
       "Hi! I'm " \o persona.name \o ", and I'm excited to chat with you today!",
       "Welcome! I'm " \o persona.name \o ". " \o SplitChar(persona.tagline, ".")[1] \o "." >>

generateWelcomeMessage(persona, rnd) ==
    LET message == randomChoice(welcomeTemplates(persona), rnd[1])
    IN IF Len(persona.emojiStyle) > 0
       THEN message \o " " \o SplitChar(persona.emojiStyle, " ")[1]
       ELSE message

(***************************************************************************)
(* Inputs                                                                  *)
(***************************************************************************)
\* the texts given to the analysis engine
Texts == {
    "",
    "!!!",
    "..................................................",
    "The cat sat on the mat and then it left.",
    "I love coding and building innovative software solutions every day! Technology excites me so much!!",
    "I love creative music, software and business strategy! However my professional experience is amazing! Travel and learning are fantastic!",
    "alpha bravo charlie delta echo foxtrot golf hotel india. alpha bravo charlie delta echo foxtrot golf hotel india",
    "yeah it's calm and quiet, isn't it? that's a bad problem... so steady -- why?   $ # $    ",
    "zeta met 2024 in 1999. zeta 1999 and 2024 constructor constructor 7 and 7 again, art's artistic ART OKay",
    "I hate this artistic code - I love it"}

\* the tokens of every text
textTokens == [text \in Texts |-> tokenize(text)] @@ <<>>

\* the sentences of every text
textSentences == [text \in Texts |-> splitSentences(text)] @@ <<>>

\* the chat messages given to the response generator
Utterances == {
    "What about technology?",
    "why and how?",
    "Which art?",
    "I love that",
    "that is sad",
    "ok",
    "?"}

\* null and a value that is not null, for a variable that may hold either
None == <<>>

Some(v) == <<v>>

\* persona lists that local storage may hold when the page is opened: personas
\* of this program whose traits were stored by another version or edited
StoredTraits == {
    <<"Balanced", "Moderate", "Curious">>,
    <<"Casual", "Energetic", "Curious", "Expressive">>,
    <<"Professional", "Calm", "Expressive">>,
    <<"Balanced", "Moderate">>}

\* stored personas were created before the session starts at time 0
StoredTime == -1

StoredText == "I love coding and building innovative software solutions every day! Technology excites me so much!!"

StoredPersonas ==
    { [createPersona(analyzeText(StoredText), StoredText, [i \in 1..MaxDraws |-> 0], StoredTime) EXCEPT !.traits = tr] :
         tr \in StoredTraits }

(***************************************************************************)
(* The engine applied to its inputs: analyze, synthesize, respond          *)
(***************************************************************************)
engineVars == <<inText, features, profile, profilePrev, reply, replyAgain, welcome, choices>>

Lengths(lists) == [i \in 1..Len(lists) |-> Len(lists[i])]

controllerVars == <<currentPersona, savedPersonas, chatHistory, isAnalyzing, localStorage,
                    pendingBio, pendingReplies, pendingStartChat, now, threw, userActions>>

serverVars == <<Persona, ChatMessage, ShareToken, personasCreated, nextId, inflight,
                res, serverNow, requests, served, userRequests, admitted>>

\* the server right after its start on an empty database
ServerIdle ==
    /\ Persona = {}
    /\ ChatMessage = <<>>
    /\ ShareToken = {}
    /\ personasCreated = [u \in {"u1", "u2"} |-> 0]
    /\ nextId = 0
    /\ inflight = EmptyBag
    /\ res = None
    /\ serverNow = 0
    /\ requests = 0
    /\ served = [value \in {"Xk3_9aQz", "b7-LmP2w"} |-> 0]
    /\ userRequests = [u \in {"u1", "u2"} |-> <<>>]
    /\ admitted = [u \in {"u1", "u2"} |-> <<>>]

\* the controller as the constructor leaves it, with nothing stored
ControllerIdle ==
    /\ currentPersona = None
    /\ savedPersonas = <<>>
    /\ chatHistory = <<>>
    /\ isAnalyzing = FALSE
    /\ localStorage = None
    /\ pendingBio = None
    /\ pendingReplies = <<>>
    /\ pendingStartChat = 0
    /\ now = 0
    /\ threw = FALSE
    /\ userActions = 0

InitEngine ==
    /\ inText \in Texts
    /\ features = None
    /\ profile = None
    /\ profilePrev = None
    /\ reply = None
    /\ replyAgain = None
    /\ welcome = None
    /\ choices = <<>>
    /\ ControllerIdle
    /\ ServerIdle

Analyze ==
    /\ features = None
    /\ features' = Some(analyzeText(inText))
    /\ UNCHANGED <<inText, profile, profilePrev, reply, replyAgain, welcome, choices>>
    /\ UNCHANGED controllerVars
    /\ UNCHANGED serverVars

\* the persona held by the engine was built by createPersona (not read from storage)
Synthesized == profile # None /\ profile[1].createdAt # StoredTime

Synthesize(rnd) ==
    /\ features # None
    /\ reply = None
    /\ welcome = None
    /\ profilePrev = None
    /\ profile # None => Synthesized
    /\ profile' = Some(createPersona(features[1], inText, rnd, 0))
    /\ profilePrev' = profile
    /\ choices' = Lengths(createPersonaChoices(features[1], inText))
    /\ UNCHANGED <<inText, features, reply, replyAgain, welcome>>
    /\ UNCHANGED controllerVars
    /\ UNCHANGED serverVars

LoadStored(p) ==
    /\ profile = None
    /\ profile' = Some(p)
    /\ UNCHANGED <<inText, features, profilePrev, reply, replyAgain, welcome, choices>>
    /\ UNCHANGED controllerVars
    /\ UNCHANGED serverVars

Welcome(rnd) ==
    /\ profile # None
    /\ profilePrev = None
    /\ reply = None
    /\ welcome = None
    /\ welcome' = Some(generateWelcomeMessage(profile[1], rnd))
    /\ choices' = <<Len(welcomeTemplates(profile[1]))>>
    /\ UNCHANGED <<inText, features, profile, profilePrev, reply, replyAgain>>
    /\ UNCHANGED controllerVars
    /\ UNCHANGED serverVars

Respond(userMessage, rnd) ==
    /\ profile # None
    /\ profilePrev = None
    /\ reply = None
    /\ welcome = None
    /\ LET body == bodyChoices(profile[1], userMessage)
           response == unstyledResponse(profile[1], userMessage, rnd)
       IN /\ reply' = Some([utterance |-> userMessage, rnd |-> rnd, response |-> response,
                            text |-> applyPersonaStyle(response, profile[1], rnd, Len(body) + 1)])
          /\ choices' = Lengths(body \o styleChoices(profile[1], rnd, Len(body) + 1))
    /\ UNCHANGED <<inText, features, profile, profilePrev, replyAgain, welcome>>
    /\ UNCHANGED controllerVars
    /\ UNCHANGED serverVars

RespondAgain ==
    /\ reply # None
    /\ replyAgain = None
    /\ replyAgain' = Some(generateResponse(profile[1], reply[1].utterance, reply[1].rnd))
    /\ UNCHANGED <<inText, features, profile, profilePrev, reply, welcome, choices>>
    /\ UNCHANGED controllerVars
    /\ UNCHANGED serverVars

NextEngine ==
    \/ Analyze
    \/ \E rnd \in Streams : Synthesize(rnd)
    \/ \E p \in StoredPersonas : LoadStored(p)
    \/ \E rnd \in Streams : Welcome(rnd)
    \/ \E m \in Utterances, rnd \in Streams : Respond(m, rnd)
    \/ RespondAgain

(***************************************************************************)
(* Persistence: JSON.stringify and JSON.parse                              *)
(***************************************************************************)
\* null; as an operand of < and > it converts to the number 0
JsonNull == [n |-> 0, d |-> 1, null |-> TRUE]

\* the value that JSON.parse reads back for a number: JSON.stringify writes
\* NaN and Infinity as null, and a finite number in a form that reads back equal
jsonNumber(x) == IF x.d = 0 THEN JsonNull ELSE x

\* the value that JSON.parse(JSON.stringify(p)) returns for a persona p
jsonPersona(p) ==
    [p EXCEPT !.communicationStyle.formality = jsonNumber(@),
              !.communicationStyle.energy = jsonNumber(@),
              !.analysisData.avgWordsPerSentence = jsonNumber(@),
              !.analysisData.sentiment.strength = jsonNumber(@),
              !.analysisData.formality = jsonNumber(@),
              !.analysisData.energy = jsonNumber(@),
              !.analysisData.vocabulary.richness = jsonNumber(@),
              !.analysisData.punctuationStyle.density = jsonNumber(@),
              !.analysisData.emojiUsage.density = jsonNumber(@),
              !.analysisData.questionRatio = jsonNumber(@),
              !.analysisData.exclamationRatio = jsonNumber(@)]

\* the value that JSON.parse reads from JSON.stringify(personas)
jsonRoundTrip(personas) == [i \in 1..Len(personas) |-> jsonPersona(personas[i])]

(***************************************************************************)
(* Controller: class PersonaWriter                                         *)
(***************************************************************************)
\* bounds of the controller model
MaxChat == 4

MaxSaved == 2

MaxPending == 2

MaxTime == 1

\* the number of user actions in a run of the controller
MaxUserActions == 3

MinBioLength == 50

\* the texts typed into the bio input
BioTexts == {
    "  too short  ",
    "..................................................",
    "I love coding and building innovative software solutions every day! Technology excites me so much!!"}

\* the texts typed into the chat input
ChatTexts == {"   ", "that is sad", "What about technology?"}

\* the streams of draws of the handlers of the controller
ControllerStreams == { rnd \in Streams : rnd[1] \in {7} /\ rnd[2] = (rnd[1] + 3) % RandRes }

\* what local storage holds when the page is first opened
InitialStorage == {None} \cup { Some(<<p>>) : p \in { q \in StoredPersonas : arrayIncludes(q.traits, "Curious") /\ Len(q.traits) = 3 } }

\* a handler that the user starts counts as one user action
UserAction == userActions < MaxUserActions /\ userActions' = userActions + 1

vars == <<engineVars, controllerVars, serverVars>>

\* loadSavedPersonas: saved ? JSON.parse(saved) : []
loadSavedPersonas(storage) == IF storage = None THEN <<>> ELSE storage[1]

EngineIdle ==
    /\ inText = ""
    /\ features = None
    /\ profile = None
    /\ profilePrev = None
    /\ reply = None
    /\ replyAgain = None
    /\ welcome = None

\* the constructor and init()
Init ==
    /\ EngineIdle
    /\ choices = <<>>
    /\ currentPersona = None
    /\ chatHistory = <<>>
    /\ localStorage \in InitialStorage
    /\ savedPersonas = loadSavedPersonas(localStorage)
    /\ isAnalyzing = FALSE
    /\ pendingBio = None
    /\ pendingReplies = <<>>
    /\ pendingStartChat = 0
    /\ now = 0
    /\ threw = FALSE
    /\ userActions = 0
    /\ ServerIdle

\* a variant of GeneratePersonaStart without the test of isAnalyzing
GeneratePersonaStartUnguarded(bioInput) ==
    /\ UserAction
    /\ IF Len(trim(bioInput)) < MinBioLength
       THEN UNCHANGED <<isAnalyzing, pendingBio>>
       ELSE /\ isAnalyzing' = TRUE
            /\ pendingBio' = Some(trim(bioInput))
    /\ UNCHANGED <<engineVars, currentPersona, savedPersonas, chatHistory, localStorage,
                   pendingReplies, pendingStartChat, now, threw>>
    /\ UNCHANGED serverVars

\* generatePersona up to its await: the two early returns, or the start of the
\* analysis
GeneratePersonaStart(bioInput) ==
    /\ UserAction
    /\ IF isAnalyzing
       THEN UNCHANGED <<isAnalyzing, pendingBio>>
       ELSE IF Len(trim(bioInput)) < MinBioLength
       THEN UNCHANGED <<isAnalyzing, pendingBio>>
       ELSE /\ isAnalyzing' = TRUE
            /\ pendingBio' = Some(trim(bioInput))
    /\ UNCHANGED <<engineVars, currentPersona, savedPersonas, chatHistory, localStorage,
                   pendingReplies, pendingStartChat, now, threw>>
    /\ UNCHANGED serverVars

\* an analysis that reads the chat history as well as the text
analysisByChatLength(bioText) ==
    IF Len(chatHistory) > 0 THEN analyzeText("") ELSE analyzeText(bioText)

\* const analysis = this.analyzeText(text) in generatePersona
analysisOfBio(bioText) == analyzeText(bioText)

\* generatePersona after the delay: analysis, synthesis, and the finally block
GeneratePersonaFinish(rnd) ==
    /\ pendingBio # None
    /\ LET bioText == pendingBio[1]
           analysis == analysisOfBio(bioText)
       IN /\ inText' = bioText
          /\ features' = Some(analysis)
          /\ currentPersona' = Some(createPersona(analysis, bioText, rnd, now))
          /\ choices' = Lengths(createPersonaChoices(analysis, bioText))
    /\ isAnalyzing' = FALSE
    /\ pendingBio' = None
    /\ UNCHANGED <<profile, profilePrev, reply, replyAgain, welcome,
                   savedPersonas, chatHistory, localStorage, pendingReplies, pendingStartChat, now, threw>>
    /\ UNCHANGED userActions
    /\ UNCHANGED serverVars

\* a variant of findIndex that finds an entry only in the first place
findIndexFirstOnly(personas, id) ==
    IF Len(personas) > 0 /\ personas[1].id = id THEN 1 ELSE 0

\* savedPersonas.findIndex(p => p.id === id), 0 when there is none
findIndex(personas, id) ==
    LET found == { i \in 1..Len(personas) : personas[i].id = id }
    IN IF found = {} THEN 0 ELSE Nth(found, 1)

saveCurrentPersona ==
    /\ UserAction
    /\ currentPersona # None
    /\ LET existingIndex == findIndex(savedPersonas, currentPersona[1].id)
       IN /\ existingIndex = 0 => Len(savedPersonas) < MaxSaved
          /\ savedPersonas' = IF existingIndex > 0
                              THEN [savedPersonas EXCEPT ![existingIndex] = currentPersona[1]]
                              ELSE Append(savedPersonas, currentPersona[1])
    /\ localStorage' = Some(jsonRoundTrip(savedPersonas'))
    /\ UNCHANGED <<engineVars, currentPersona, chatHistory, isAnalyzing, pendingBio,
                   pendingReplies, pendingStartChat, now, threw>>
    /\ UNCHANGED serverVars

\* loadPersona for the Load button of a displayed saved persona
loadPersona(i) ==
    /\ UserAction
    /\ currentPersona' = Some(savedPersonas[i])
    /\ UNCHANGED <<engineVars, savedPersonas, chatHistory, isAnalyzing, localStorage, pendingBio,
                   pendingReplies, pendingStartChat, now, threw>>
    /\ UNCHANGED serverVars

\* the Chat button of a displayed saved persona: loadPersona, then startChat after 100 ms
chatPersona(i) ==
    /\ UserAction
    /\ pendingStartChat < MaxPending
    /\ currentPersona' = Some(savedPersonas[i])
    /\ pendingStartChat' = pendingStartChat + 1
    /\ UNCHANGED <<engineVars, savedPersonas, chatHistory, isAnalyzing, localStorage, pendingBio,
                   pendingReplies, now, threw>>
    /\ UNCHANGED serverVars

botTurn(message) == [type |-> "bot", message |-> message, timestamp |-> now]

userTurn(message) == [type |-> "user", message |-> message, timestamp |-> now]

\* the body of startChat once a current persona exists
StartChatBody(rnd) ==
    /\ chatHistory' = <<botTurn(generateWelcomeMessage(currentPersona[1], rnd))>>
    /\ choices' = <<Len(welcomeTemplates(currentPersona[1]))>>

\* startChat from the Start Chat button
startChat(rnd) ==
    /\ UserAction
    /\ currentPersona # None
    /\ StartChatBody(rnd)
    /\ UNCHANGED <<inText, features, profile, profilePrev, reply, replyAgain, welcome,
                   currentPersona, savedPersonas, isAnalyzing, localStorage, pendingBio,
                   pendingReplies, pendingStartChat, now, threw>>
    /\ UNCHANGED serverVars

\* startChat from the timer of the Chat button
startChatTimer(rnd) ==
    /\ pendingStartChat > 0
    /\ pendingStartChat' = pendingStartChat - 1
    /\ IF currentPersona # None
       THEN StartChatBody(rnd)
       ELSE UNCHANGED <<chatHistory, choices>>
    /\ UNCHANGED <<inText, features, profile, profilePrev, reply, replyAgain, welcome,
                   currentPersona, savedPersonas, isAnalyzing, localStorage, pendingBio,
                   pendingReplies, now, threw>>
    /\ UNCHANGED userActions
    /\ UNCHANGED serverVars

\* sendMessage: the user turn is added and the reply timer is set
sendMessage(chatInput) ==
    /\ UserAction
    /\ trim(chatInput) # ""
    /\ currentPersona # None
    /\ Len(pendingReplies) < MaxPending
    /\ Len(chatHistory) + Len(pendingReplies) + 2 <= MaxChat
    /\ chatHistory' = Append(chatHistory, userTurn(trim(chatInput)))
    /\ pendingReplies' = Append(pendingReplies, trim(chatInput))
    /\ UNCHANGED <<engineVars, currentPersona, savedPersonas, isAnalyzing, localStorage, pendingBio,
                   pendingStartChat, now, threw>>
    /\ UNCHANGED serverVars

RemoveAt(seq, i) == SubSeq(seq, 1, i - 1) \o SubSeq(seq, i + 1, Len(seq))

\* the callback of the timer that sendMessage set for its i-th pending message:
\* generateResponse reads this.currentPersona.analysisData and throws a
\* TypeError when the current persona is null
replyTimer(i, rnd) ==
    /\ i \in 1..Len(pendingReplies)
    /\ pendingReplies' = RemoveAt(pendingReplies, i)
    /\ IF currentPersona = None
       THEN /\ threw' = TRUE
            /\ UNCHANGED <<chatHistory, choices>>
       ELSE /\ chatHistory' = Append(chatHistory, botTurn(generateResponse(currentPersona[1], pendingReplies[i], rnd)))
            /\ choices' = Lengths(responseChoices(currentPersona[1], pendingReplies[i], rnd))
            /\ UNCHANGED threw
    /\ UNCHANGED <<inText, features, profile, profilePrev, reply, replyAgain, welcome,
                   currentPersona, savedPersonas, isAnalyzing, localStorage, pendingBio,
                   pendingStartChat, now>>
    /\ UNCHANGED userActions
    /\ UNCHANGED serverVars

\* deletePersona for the Delete button of a displayed saved persona, confirmed
deletePersona(i) ==
    /\ UserAction
    /\ i \in 1..Len(savedPersonas)
    /\ LET personaId == savedPersonas[i].id
           IsOther(p) == p.id # personaId
       IN /\ savedPersonas' = SelectSeq(savedPersonas, IsOther)
          /\ currentPersona' = IF currentPersona # None /\ currentPersona[1].id = personaId
                               THEN None ELSE currentPersona
    /\ localStorage' = Some(jsonRoundTrip(savedPersonas'))
    /\ UNCHANGED <<engineVars, chatHistory, isAnalyzing, pendingBio,
                   pendingReplies, pendingStartChat, now, threw>>
    /\ UNCHANGED serverVars

\* clearAllPersonas, confirmed; its button is displayed while personas are saved
clearAllPersonas ==
    /\ UserAction
    /\ Len(savedPersonas) > 0
    /\ savedPersonas' = <<>>
    /\ localStorage' = None
    /\ currentPersona' = None
    /\ UNCHANGED <<engineVars, chatHistory, isAnalyzing, pendingBio,
                   pendingReplies, pendingStartChat, now, threw>>
    /\ UNCHANGED serverVars

\* clearChat, confirmed
clearChat(rnd) ==
    /\ UserAction
    /\ IF currentPersona # None
       THEN /\ chatHistory' = <<botTurn(generateWelcomeMessage(currentPersona[1], rnd))>>
            /\ choices' = <<Len(welcomeTemplates(currentPersona[1]))>>
       ELSE /\ chatHistory' = <<>>
            /\ UNCHANGED choices
    /\ UNCHANGED <<inText, features, profile, profilePrev, reply, replyAgain, welcome,
                   currentPersona, savedPersonas, isAnalyzing, localStorage, pendingBio,
                   pendingReplies, pendingStartChat, now, threw>>
    /\ UNCHANGED serverVars

\* the page is opened again: a new PersonaWriter is constructed and reads local
\* storage; the timers of the old page are gone
Reload ==
    /\ UserAction
    /\ currentPersona' = None
    /\ savedPersonas' = loadSavedPersonas(localStorage)
    /\ chatHistory' = <<>>
    /\ isAnalyzing' = FALSE
    /\ pendingBio' = None
    /\ pendingReplies' = <<>>
    /\ pendingStartChat' = 0
    /\ inText' = ""
    /\ features' = None
    /\ choices' = <<>>
    /\ UNCHANGED <<profile, profilePrev, reply, replyAgain, welcome, localStorage, now, threw>>
    /\ UNCHANGED serverVars

Tick ==
    /\ now < MaxTime
    /\ now' = now + 1
    /\ UNCHANGED <<engineVars, currentPersona, savedPersonas, chatHistory, isAnalyzing, localStorage,
                   pendingBio, pendingReplies, pendingStartChat, threw>>
    /\ UNCHANGED userActions
    /\ UNCHANGED serverVars

Next ==
    \/ \E bioInput \in BioTexts : GeneratePersonaStart(bioInput)
    \/ \E rnd \in ControllerStreams : GeneratePersonaFinish(rnd)
    \/ saveCurrentPersona
    \/ \E i \in 1..Len(savedPersonas) : loadPersona(i)
    \/ \E i \in 1..Len(savedPersonas) : chatPersona(i)
    \/ \E rnd \in ControllerStreams : startChat(rnd)
    \/ \E rnd \in ControllerStreams : startChatTimer(rnd)
    \/ \E chatInput \in ChatTexts : sendMessage(chatInput)
    \/ \E i \in 1..MaxPending, rnd \in ControllerStreams : replyTimer(i, rnd)
    \/ \E i \in 1..MaxSaved : deletePersona(i)
    \/ clearAllPersonas
    \/ \E rnd \in ControllerStreams : clearChat(rnd)
    \/ Reload
    \/ Tick

Spec == Init /\ [][Next]_vars

SpecEngine == InitEngine /\ [][NextEngine]_vars


(***************************************************************************)
(* Properties of the text analysis engine                                  *)
(***************************************************************************)
NoDuplicates(arr) == \A i, j \in 1..Len(arr) : arr[i] = arr[j] => i = j

\* C1: for every input text, including text without tokens or without
\* sentences, the formality, energy, sentiment strength, vocabulary richness,
\* question ratio and exclamation ratio of the feature vector are numbers
\* within [0,1].
C1_UnitRange ==
    features # None =>
        /\ In01(features[1].formality)
        /\ In01(features[1].energy)
        /\ In01(features[1].sentiment.strength)
        /\ In01(features[1].vocabulary.richness)
        /\ In01(features[1].questionRatio)
        /\ In01(features[1].exclamationRatio)

\* C2: the topics list of the feature vector has at most 3 entries, no label
\* twice, and no topic that no token of the text scores for.
C2_Topics ==
    features # None =>
        LET topics == features[1].topics
        IN /\ Len(topics) <= 3
           /\ NoDuplicates(topics)
           /\ \A i \in 1..Len(topics) :
                 \E k \in 1..Len(topicNames) :
                    /\ topicNames[k] = topics[i]
                    /\ KeywordHits(textTokens[inText], topicKeywords[topicNames[k]]) > 0

\* a text with a scoring topic and, among the three best, topics that score zero
C2_Witness ==
    /\ features # None
    /\ Len(features[1].topics) = 1
    /\ features[1].wordCount > 0

\* C3: a persona built by createPersona has at most 5 traits, at most 4
\* signature phrases, at most 6 favorite words and at most 6 space-separated
\* tokens in its emoji style.
C3_Sizes ==
    Synthesized =>
        /\ Len(profile[1].traits) <= 5
        /\ Len(profile[1].signaturePhrases) <= 4
        /\ Len(profile[1].favoriteWords) <= 6
        /\ Len(SplitChar(profile[1].emojiStyle, " ")) <= 6

\* a persona whose text gives more than 5 traits and more than 4 phrases
\* before the lists are cut
C3_Witness ==
    /\ Synthesized
    /\ Len(profile[1].traits) = 5
    /\ arrayIncludes(profile[1].analysisData.topics, "business")
    /\ Len(profile[1].signaturePhrases) = 4
    /\ Len(phraseChoices(profile[1].analysisData, inText)) > 4
    /\ Len(SplitChar(profile[1].emojiStyle, " ")) = 6


AllReactions == reactionTemplates.positive \o reactionTemplates.negative \o reactionTemplates.neutral

\* C6: for a persona whose traits contain "Curious" and an utterance without
\* '?', the reply is a reaction followed by one of the six clarifying
\* questions, styled for the persona; the follow-up is never the enthusiasm
\* line or a reflective line.
C6_CuriousFollowUp ==
    (reply # None /\ arrayIncludes(profile[1].traits, "Curious") /\ ~includes(reply[1].utterance, "?")) =>
        LET userTokens == tokenize(toLowerCase(reply[1].utterance))
            followUp == generateFollowUp(userTokens, profile[1], reply[1].rnd, 2)
        IN /\ arrayIncludes(followUps, followUp)
           /\ followUp # enthusiasmLine
           /\ ~arrayIncludes(reflectiveLines, followUp)
           /\ \E r \in 1..Len(AllReactions) :
                 reply[1].text = applyPersonaStyle(AllReactions[r] \o " " \o followUp,
                                                   profile[1], reply[1].rnd, 3)

\* a reply to a statement by a persona that is Curious as well as Expressive
C6_Witness ==
    /\ reply # None
    /\ arrayIncludes(profile[1].traits, "Curious")
    /\ arrayIncludes(profile[1].traits, "Expressive")
    /\ arrayIncludes(profile[1].traits, "Energetic")
    /\ ~includes(reply[1].utterance, "?")

\* the number of tokens that a lexicon includes
Matches(tokens, lexicon) == Cardinality({ i \in 1..Len(tokens) : arrayIncludes(lexicon, tokens[i]) })

\* C7: when no token is in the positive or the negative lexicon the sentiment
\* is neutral with strength exactly 0.3; otherwise the strength is
\* min(1, 10 * matches / tokens) and the polarity is positive, negative or
\* neutral as positive matches minus negative matches is above, below or
\* equal to zero.
C7_Sentiment ==
    features # None =>
        LET tokens == tokenize(inText)
            pos == Matches(tokens, positiveWords)
            neg == Matches(tokens, negativeWords)
            sentiment == features[1].sentiment
        IN IF pos + neg = 0
           THEN sentiment.polarity = "neutral" /\ sentiment.strength = Num(3, 10)
           ELSE /\ IF 10 * (pos + neg) >= Len(tokens)
                   THEN sentiment.strength.n = sentiment.strength.d
                   ELSE sentiment.strength.n * Len(tokens) = 10 * (pos + neg) * sentiment.strength.d
                /\ sentiment.strength.d > 0
                /\ sentiment.polarity = IF pos > neg THEN "positive"
                                        ELSE IF pos < neg THEN "negative" ELSE "neutral"

\* a text with as many positive as negative matches
C7_Witness ==
    /\ features # None
    /\ Matches(tokenize(inText), positiveWords) > 0
    /\ Matches(tokenize(inText), positiveWords) = Matches(tokenize(inText), negativeWords)

\* C9: every candidate list passed to randomChoice during persona synthesis,
\* welcome-message generation and response generation is non-empty.
C9_NonEmptyChoices == \A i \in 1..Len(choices) : choices[i] > 0

\* a reply by a persona without signature phrases, on draws that would add one
C9_Witness ==
    /\ reply # None
    /\ Len(profile[1].signaturePhrases) = 0
    /\ Len(choices) > 0
    /\ RandomBelow(reply[1].rnd[Len(bodyChoices(profile[1], reply[1].utterance)) + 1], 3, 10)


C8_NeverThrows == ~threw

\* C10: what loadSavedPersonas reads back from local storage equals, field
\* by field, the personas that saveCurrentPersona serialised into it.
C10_RoundTrip == localStorage # None => loadSavedPersonas(localStorage) = savedPersonas


\* a step in which generatePersona completes and sets a new current persona
GenerationStep == pendingBio # None /\ pendingBio' = None /\ currentPersona' # None

\* C11: a persona generation yields an id different from the id of every
\* persona generated before it in the session (the current persona it
\* replaces) and of every persona of the saved list, whatever the clock value
\* and the random draw.
C11_UniqueId ==
    [][GenerationStep =>
          /\ currentPersona # None => currentPersona'[1].id # currentPersona[1].id
          /\ \A i \in 1..Len(savedPersonas) : currentPersona'[1].id # savedPersonas[i].id]_vars

\* a step in which the timer of sendMessage appends a bot reply
ReplyStep == Len(pendingReplies') < Len(pendingReplies) /\ Len(chatHistory') > Len(chatHistory)

\* the history holds the user turn of a message
HasUserTurn(history, message) ==
    \E j \in 1..Len(history) : history[j].type = "user" /\ history[j].message = message

\* C12: chat turns do not cross sessions: a bot reply is appended only to a
\* history that holds the user message it replies to, so after startChat or
\* clearChat has reset the history no reply to an earlier message is added.
C12_NoCrossSessionReply ==
    [][ReplyStep =>
          \E i \in 1..Len(pendingReplies) :
             /\ pendingReplies' = RemoveAt(pendingReplies, i)
             /\ HasUserTurn(chatHistory, pendingReplies[i])]_vars


\* the number of tokens that contain at least one keyword of a topic
TopicTokens(tokens, topic) ==
    Cardinality({ i \in 1..Len(tokens) :
        \E k \in 1..Len(topicKeywords[topic]) : includes(tokens[i], topicKeywords[topic][k]) })

\* C20: the score of a topic is the number of tokens that contain at least
\* one of its keywords (a token counts once per topic), and extractTopics lists
\* the at most three topics of nonzero score by descending score, equal scores
\* in declaration order.
C20_TopicScores ==
    features # None =>
        LET tokens == tokenize(inText)
            entries == [i \in 1..Len(topicNames) |->
                          [key |-> topicNames[i], score |-> TopicTokens(tokens, topicNames[i])]]
            better(i) == { j \in 1..Len(entries) :
                             \/ entries[j].score > entries[i].score
                             \/ entries[j].score = entries[i].score /\ j < i }
            listed == { i \in 1..Len(entries) : entries[i].score > 0 /\ Cardinality(better(i)) < 3 }
        IN /\ Len(features[1].topics) = Cardinality(listed)
           /\ \A i \in listed : features[1].topics[Cardinality(better(i)) + 1] = topicNames[i]

(***************************************************************************)
(* The API server: authentication, validation and the Persona model        *)
(*                                                                         *)
(* Representation choices.                                                 *)
(*  - A request carries a credential: "none" (no Authorization header),    *)
(*    "invalid" (a token that verifyJWT rejects, such as the edit token    *)
(*    'temp_<id>') or the id of the user a valid token was signed for.     *)
(*  - req.userId and a document's ownerId are None or Some(user).          *)
(*  - A request body and a document are records; a key that is absent in   *)
(*    the JSON is absent from the record's domain.                         *)
(*  - An ObjectId is the number of its generation; every id below is well  *)
(*    formed, so findById never fails with a CastError.                    *)
(*  - The filters featured, tags and search of the list request, which     *)
(*    only add conjuncts to the query, are left out.                       *)
(*  - A run of the server receives at most MaxRequests requests.           *)
(***************************************************************************)
MaxRequests == 2

\* the registered, active users, and those among them with the role admin
Users == {"u1", "u2"}
Admins == {"u2"}
Credentials == {"none", "invalid"} \cup Users

\* verifyJWT(token): the decoded user id; None stands for the thrown error
verifyJWT(token) == IF token \in Users THEN Some(token) ELSE None

\* authenticateToken: the status of the rejection, or 0 and req.userId
authenticateToken(token) ==
    IF token = "none" THEN [status |-> 401, userId |-> None]
    ELSE IF verifyJWT(token) = None THEN [status |-> 401, userId |-> None]
    ELSE [status |-> 0, userId |-> verifyJWT(token)]

\* optionalAuth: req.userId, set only for a valid token
optionalAuth(token) ==
    IF token # "none" /\ verifyJWT(token) # None THEN verifyJWT(token) ELSE None

\* req.user?.hasRole('admin')
hasRoleAdmin(userId) == userId # None /\ userId[1] \in Admins

Visibilities == {"private", "public", "unlisted"}
TopicEnum == {"technology", "creativity", "business", "lifestyle", "entertainment", "education"}

\* the Joi schemas: the keys they know and the keys they require
createPersonaSchema ==
    [keys |-> {"name", "avatar", "tagline", "traits", "tone", "formality", "energy", "emojiStyle",
               "favoriteWords", "signaturePhrases", "seedText", "analysisData", "meta"},
     required |-> {"name", "tagline", "seedText"}]

updatePersonaSchema == [createPersonaSchema EXCEPT !.required = {}]

\* the constraints of createPersonaSchema on the values of the keys in use
validValues(body) ==
    /\ "name" \in DOMAIN body => Len(body.name) >= 2 /\ Len(body.name) <= 50
    /\ "tagline" \in DOMAIN body => Len(body.tagline) <= 200
    /\ "seedText" \in DOMAIN body => Len(body.seedText) >= 50 /\ Len(body.seedText) <= 10000
    /\ "meta" \in DOMAIN body =>
          /\ DOMAIN body.meta \subseteq {"visibility", "tags"}
          /\ "visibility" \in DOMAIN body.meta => body.meta.visibility \in Visibilities

\* validateRequest with a schema that allows unknown keys
validateRequestAllowUnknown(schema, body) ==
    /\ schema.required \subseteq DOMAIN body
    /\ validValues(body)

\* validateRequest(schema): whether schema.validate(req.body) reports no error
validateRequest(schema, body) ==
    /\ DOMAIN body \subseteq schema.keys
    /\ schema.required \subseteq DOMAIN body
    /\ validValues(body)

\* canView without the comparison of the owner with the requester: any
\* authenticated user may view
canViewAnyUser(persona, userId) ==
    IF persona.meta.visibility = "public" THEN TRUE
    ELSE IF persona.meta.visibility = "unlisted" THEN TRUE
    ELSE IF persona.ownerId # None /\ userId # None THEN TRUE
    ELSE FALSE

\* personaSchema.methods.canView
canView(persona, userId) ==
    IF persona.meta.visibility = "public" THEN TRUE
    ELSE IF persona.meta.visibility = "unlisted" THEN TRUE
    ELSE IF persona.ownerId # None /\ userId # None /\ persona.ownerId = userId THEN TRUE
    ELSE FALSE

\* canEdit without the comparison of the owner with the requester
canEditAnyUser(persona, userId) ==
    IF userId = None THEN FALSE
    ELSE IF persona.ownerId # None THEN TRUE
    ELSE FALSE

\* canEdit with a persona without an owner open to every authenticated user
canEditUnowned(persona, userId) ==
    IF userId = None THEN FALSE
    ELSE IF persona.ownerId = None THEN TRUE
    ELSE IF persona.ownerId = userId THEN TRUE
    ELSE FALSE

\* personaSchema.methods.canEdit
canEdit(persona, userId) ==
    IF userId = None THEN FALSE
    ELSE IF persona.ownerId # None /\ persona.ownerId = userId THEN TRUE
    ELSE FALSE

\* personaSchema.methods.toPublic
toPublic(persona) ==
    IF persona.meta.visibility # "public"
    THEN [k \in DOMAIN persona \ {"seedText", "analysisData"} |-> persona[k]]
    ELSE persona

\* the validators of personaSchema that a body accepted by Joi can still fail:
\* the enum of analysisData.topics
modelValid(persona) ==
    \A i \in 1..Len(persona.analysisData.topics) : persona.analysisData.topics[i] \in TopicEnum

\* new Persona(personaData): the document with the defaults of personaSchema
newPersona(personaData, id) ==
    [_id |-> id,
     ownerId |-> IF "ownerId" \in DOMAIN personaData THEN personaData.ownerId ELSE None,
     name |-> personaData.name,
     tagline |-> personaData.tagline,
     seedText |-> personaData.seedText,
     analysisData |-> IF "analysisData" \in DOMAIN personaData THEN personaData.analysisData
                      ELSE [topics |-> <<>>],
     meta |-> [visibility |-> IF "meta" \in DOMAIN personaData /\ "visibility" \in DOMAIN personaData.meta
                              THEN personaData.meta.visibility ELSE "private"],
     stats |-> [views |-> 0, chats |-> 0]]

(***************************************************************************)
(* The API server: requests and their handlers                             *)
(***************************************************************************)
MaxServerTime == 31

\* createExpirationDate(): the default number of days a share token lives
ExpiryDays == 30

\* process.env.INFER_MODE of the deployment modelled (full mode)
INFER_MODE == "rule"

SeedText50 == "I am a test persona with enough text to be analyzed"

\* the ids that requests name: ids of stored personas and ids that no persona has
RequestIds == {1, 2}

\* the bodies of create requests
CreateBodies ==
    LET base == [name |-> "TestBot", tagline |-> "A test persona", seedText |-> SeedText50]
        with(body, key, value) == [k \in DOMAIN body \cup {key} |-> IF k = key THEN value ELSE body[k]]
    IN { base,
         with(base, "meta", [visibility |-> "public"]),
         with(with(base, "meta", [visibility |-> "unlisted"]), "analysisData", [topics |-> <<"technology">>]),
         with(base, "analysisData", [topics |-> <<"sports">>]),
         with(base, "ownerId", Some("u2")),
         [base EXCEPT !.seedText = "too short"] }

\* the bodies of update requests
UpdateBodies ==
    { [name |-> "UpdatedBot", meta |-> [visibility |-> "public"]],
      [meta |-> [visibility |-> "private"]],
      [name |-> "HackedBot", ownerId |-> Some("u2")],
      [_id |-> 2] }

\* the query strings of list requests: visibility and ownerId are None when the
\* parameter is absent
ListQueries ==
    { [visibility |-> v, ownerId |-> o, page |-> 1, limit |-> 20] :
        v \in {None} \cup { Some(x) : x \in Visibilities },
        o \in {None} \cup { Some(u) : u \in Users } }
    \cup { [visibility |-> None, ownerId |-> None, page |-> 2, limit |-> 1] }

\* one more request is received
Request == requests < MaxRequests /\ requests' = requests + 1

\* the response a step sends, kept with the request it answers (userId is
\* req.userId); docs holds the persona documents of the body, as
\* they are serialized
Answer(op, userId, id, query, status, docs, editToken) ==
    Some([op |-> op, userId |-> userId, id |-> id, query |-> query, body |-> None,
          status |-> status, docs |-> docs, editToken |-> editToken])

\* an answer to a request with a body
AnswerTo(body, answer) == Some([answer[1] EXCEPT !.body = Some(body)])

NoQuery == [visibility |-> None, ownerId |-> None, page |-> 1, limit |-> 20]

\* Persona.findById(id): None when there is no such document
findById(id) ==
    IF \E p \in Persona : p._id = id THEN Some(CHOOSE p \in Persona : p._id = id) ELSE None

\* the documents of the collection with the changes a handler made to the
\* document it loaded: save() writes the modified paths of the document with
\* that _id, and writes nothing when the document is gone
savedPaths(id, document) == { IF p._id = id THEN document ELSE p : p \in Persona }

serverData == <<Persona, ChatMessage, ShareToken, personasCreated, nextId>>

\* POST /api/personas: optionalAuth, validateRequest(createPersonaSchema) and
\* createPersona of persona.controller.js
serverCreatePersona(token, body) ==
    LET userId == optionalAuth(token)
        personaData == IF userId # None
                       THEN [k \in DOMAIN body \cup {"ownerId"} |-> IF k = "ownerId" THEN userId ELSE body[k]]
                       ELSE body
        persona == newPersona(personaData, nextId + 1)
    IN /\ Request
       /\ IF ~validateRequest(createPersonaSchema, body)
          THEN /\ res' = AnswerTo(body, Answer("create", userId, 0, NoQuery, 400, <<>>, None))
               /\ UNCHANGED serverData
          ELSE /\ personasCreated' = IF userId # None
                                     THEN [personasCreated EXCEPT ![userId[1]] = @ + 1]
                                     ELSE personasCreated
               /\ nextId' = nextId + 1
               /\ IF modelValid(persona)
                  THEN /\ Persona' = Persona \cup {persona}
                       /\ res' = AnswerTo(body, Answer("create", userId, persona._id, NoQuery, 201, <<persona>>,
                                        IF persona.ownerId = None THEN Some(persona._id) ELSE None))
                  ELSE /\ res' = AnswerTo(body, Answer("create", userId, 0, NoQuery, 400, <<>>, None))
                       /\ UNCHANGED Persona
               /\ UNCHANGED <<ChatMessage, ShareToken>>
       /\ UNCHANGED <<inflight, serverNow>>
       /\ UNCHANGED <<engineVars, controllerVars, served, userRequests, admitted>>

\* the documents of a set, newest first: sort({ createdAt: -1 })
RECURSIVE newestFirst(_)
newestFirst(docs) ==
    IF docs = {} THEN <<>>
    ELSE LET newest == CHOOSE p \in docs : \A q \in docs : q._id <= p._id
         IN <<newest>> \o newestFirst(docs \ {newest})

\* the query that getPersonas builds, as a predicate on documents
matchesQuery(p, query, userId) ==
    /\ IF query.visibility # None THEN p.meta.visibility = query.visibility[1]
       ELSE IF userId = None THEN p.meta.visibility = "public"
       ELSE IF query.ownerId = None
            THEN \/ p.meta.visibility = "public"
                 \/ p.meta.visibility = "unlisted"
                 \/ p.ownerId = userId
       ELSE TRUE
    /\ query.ownerId # None => p.ownerId = query.ownerId

\* skip(skip).limit(limit)
paginate(list, page, limit) ==
    SubSeq(list, (page - 1) * limit + 1, IF page * limit < Len(list) THEN page * limit ELSE Len(list))

\* the personas array of the list response
listedPersonas(query, userId) ==
    LET found == paginate(newestFirst({ p \in Persona : matchesQuery(p, query, userId) }),
                          query.page, query.limit)
    IN [i \in 1..Len(found) |->
          IF userId # None \/ found[i].meta.visibility = "public" THEN found[i] ELSE toPublic(found[i])]

\* GET /api/personas: optionalAuth, getPersonas
getPersonas(token, query) ==
    LET userId == optionalAuth(token)
    IN /\ Request
       /\ IF query.ownerId # None /\ ~(query.ownerId = userId \/ hasRoleAdmin(userId))
          THEN res' = Answer("list", userId, 0, query, 403, <<>>, None)
          ELSE res' = Answer("list", userId, 0, query, 200, listedPersonas(query, userId), None)
       /\ UNCHANGED <<serverData, inflight, serverNow>>
       /\ UNCHANGED <<engineVars, controllerVars, served, userRequests, admitted>>

\* persona.incrementViews(), persona.incrementChats(): the stats of a loaded document
incrementViews(persona) == [persona EXCEPT !.stats.views = @ + 1]
incrementChats(persona) == [persona EXCEPT !.stats.chats = @ + 1]

\* GET /api/personas/:id: optionalAuth, getPersona
getPersona(token, id) ==
    LET userId == optionalAuth(token)
        found == findById(id)
    IN /\ Request
       /\ IF found = None
          THEN res' = Answer("get", userId, id, NoQuery, 404, <<>>, None) /\ UNCHANGED Persona
          ELSE IF ~canView(found[1], userId)
          THEN res' = Answer("get", userId, id, NoQuery, 403, <<>>, None) /\ UNCHANGED Persona
          ELSE /\ Persona' = savedPaths(id, incrementViews(found[1]))
               /\ res' = Answer("get", userId, id, NoQuery, 200,
                                <<IF canEdit(incrementViews(found[1]), userId)
                                  THEN incrementViews(found[1]) ELSE toPublic(incrementViews(found[1]))>>, None)
       /\ UNCHANGED <<ChatMessage, ShareToken, personasCreated, nextId, inflight, serverNow>>
       /\ UNCHANGED <<engineVars, controllerVars, served, userRequests, admitted>>

\* the bodies of chat requests
ChatBodies ==
    { [sender |-> "user", text |-> "Hello there", serverReply |-> FALSE],
      [sender |-> "user", text |-> "Hello there", serverReply |-> TRUE],
      [sender |-> "user"] }

\* chatMessageSchema
chatMessageSchema == [keys |-> {"sender", "text", "sessionId", "serverReply"},
                      required |-> {"sender", "text"}]

validChatValues(body) ==
    /\ "sender" \in DOMAIN body => body.sender \in {"user", "persona"}
    /\ "text" \in DOMAIN body => Len(body.text) >= 1 /\ Len(body.text) <= 1000

\* nanoid values that generateShareToken() can return
ShareTokenValues == {"Xk3_9aQz", "b7-LmP2w"}

\* err.code: undefined, a number or a string
NoCode == [type |-> "undefined", num |-> 0, str |-> ""]
NumCode(n) == [type |-> "number", num |-> n, str |-> ""]
StrCode(c) == [type |-> "string", num |-> 0, str |-> c]

\* String.prototype.startsWith
startsWith(str, prefix) == Len(str) >= Len(prefix) /\ SubSeq(str, 1, Len(prefix)) = prefix

\* errorHandler up to res.status(statusCode).json(errorResponse): whether it
\* throws, and the status and the error message it sends if it does not
errorHandler(err) ==
    LET copied == [message |-> err.message, statusCode |-> err.statusCode]
        cast == IF err.name = "CastError"
                THEN [message |-> "Invalid ID format", statusCode |-> 400] ELSE copied
        duplicateKey == err.code.type = "number" /\ err.code.num = 11000
        field == IF err.keyValue # None /\ err.keyValue[1] # <<>>
                 THEN err.keyValue[1][1] ELSE "undefined"
        duplicate == IF duplicateKey
                     THEN [message |-> field \o " already exists", statusCode |-> 400] ELSE cast
        validation == IF err.name = "ValidationError" /\ err.errors # None
                      THEN [message |-> join(err.errors[1], ", "), statusCode |-> 400] ELSE duplicate
        jwt == IF err.name = "JsonWebTokenError"
               THEN [message |-> "Invalid token", statusCode |-> 401] ELSE validation
        expired == IF err.name = "TokenExpiredError"
                   THEN [message |-> "Token expired", statusCode |-> 401] ELSE jwt
        mongo == IF err.name \in {"MongoError", "MongoNetworkError"}
                 THEN [message |-> "Database connection error", statusCode |-> 503] ELSE expired
        rate == IF err.statusCode = 429
                THEN [message |-> "Too many requests, please try again later", statusCode |-> 429]
                ELSE mongo
        fileSize == IF err.code.type = "string" /\ err.code.str = "LIMIT_FILE_SIZE"
                    THEN [message |-> "File too large", statusCode |-> 413] ELSE rate
        multer == IF err.code.type = "string" /\ startsWith(err.code.str, "LIMIT_")
                  THEN [message |-> "File upload error", statusCode |-> 400] ELSE fileSize
        throws == \/ duplicateKey /\ err.keyValue = None
                  \/ err.name = "ValidationError" /\ err.errors = None
                  \/ err.code.type = "number" /\ err.code.num # 0
    IN [threw |-> throws,
        statusCode |-> IF multer.statusCode # 0 THEN multer.statusCode ELSE 500,
        message |-> IF multer.message # "" THEN multer.message ELSE "Internal server error"]

\* the errors passed to next(): those of mongoose, the MongoDB driver,
\* jsonwebtoken and multer, and errors raised with or without a statusCode
CastError == [name |-> "CastError", code |-> NoCode, statusCode |-> 0, keyValue |-> None,
              errors |-> None, message |-> "Cast to ObjectId failed"]
DuplicateKeyError ==
    [name |-> "MongoServerError", code |-> NumCode(11000), statusCode |-> 0,
     keyValue |-> Some(<<"token">>), errors |-> None, message |-> "E11000 duplicate key error"]
Errors ==
    { CastError, DuplicateKeyError,
      [name |-> "ValidationError", code |-> NoCode, statusCode |-> 0, keyValue |-> None,
       errors |-> Some(<<"Name is required", "Seed text is required">>),
       message |-> "Persona validation failed"],
      [name |-> "JsonWebTokenError", code |-> NoCode, statusCode |-> 0, keyValue |-> None,
       errors |-> None, message |-> "jwt malformed"],
      [name |-> "TokenExpiredError", code |-> NoCode, statusCode |-> 0, keyValue |-> None,
       errors |-> None, message |-> "jwt expired"],
      [name |-> "MongoNetworkError", code |-> NoCode, statusCode |-> 0, keyValue |-> None,
       errors |-> None, message |-> "connection timed out"],
      [name |-> "Error", code |-> NoCode, statusCode |-> 429, keyValue |-> None,
       errors |-> None, message |-> "Too many requests"],
      [name |-> "MulterError", code |-> StrCode("LIMIT_FILE_SIZE"), statusCode |-> 0,
       keyValue |-> None, errors |-> None, message |-> "File too large"],
      [name |-> "MulterError", code |-> StrCode("LIMIT_UNEXPECTED_FILE"), statusCode |-> 0,
       keyValue |-> None, errors |-> None, message |-> "Unexpected field"],
      [name |-> "Error", code |-> NoCode, statusCode |-> 404, keyValue |-> None,
       errors |-> None, message |-> "Route /nowhere not found"],
      [name |-> "Error", code |-> StrCode("ECONNRESET"), statusCode |-> 0, keyValue |-> None,
       errors |-> None, message |-> "socket hang up"],
      [name |-> "TypeError", code |-> NoCode, statusCode |-> 0, keyValue |-> None,
       errors |-> None, message |-> ""] }

\* a handler run that waits at an await: its request, what it still has to do
\* and what it holds of the document it loaded (serverReply of the body, the
\* chats of the persona, the expiry date computed for the share token, the
\* visits that incrementVisits() has set on the share token it saves)
Continuation(op, userId, id, todo, serverReply, chats, expiresAt, visits) ==
    [op |-> op, userId |-> userId, id |-> id, todo |-> todo,
     serverReply |-> serverReply, chats |-> chats, expiresAt |-> expiresAt, visits |-> visits]

await(c) == inflight (+) SetToBag({c})
resume(c) == inflight (-) SetToBag({c})

\* PUT /api/personas/:id: authenticateToken, validateRequest(updatePersonaSchema), updatePersona
updatePersona(token, id, updates) ==
    LET auth == authenticateToken(token)
        found == findById(id)
        applied(persona) == [k \in DOMAIN persona |->
                                IF k \in DOMAIN updates /\ k # "ownerId" /\ k # "_id"
                                THEN updates[k] ELSE persona[k]]
    IN /\ Request
       /\ IF auth.status # 0
          THEN res' = AnswerTo(updates, Answer("update", auth.userId, id, NoQuery, auth.status, <<>>, None)) /\ UNCHANGED Persona
          ELSE IF ~validateRequest(updatePersonaSchema, updates)
          THEN res' = AnswerTo(updates, Answer("update", auth.userId, id, NoQuery, 400, <<>>, None)) /\ UNCHANGED Persona
          ELSE IF found = None
          THEN res' = AnswerTo(updates, Answer("update", auth.userId, id, NoQuery, 404, <<>>, None)) /\ UNCHANGED Persona
          ELSE IF ~canEdit(found[1], auth.userId)
          THEN res' = AnswerTo(updates, Answer("update", auth.userId, id, NoQuery, 403, <<>>, None)) /\ UNCHANGED Persona
          ELSE /\ Persona' = savedPaths(id, applied(found[1]))
               /\ res' = AnswerTo(updates, Answer("update", auth.userId, id, NoQuery, 200, <<applied(found[1])>>, None))
       /\ UNCHANGED <<ChatMessage, ShareToken, personasCreated, nextId, inflight, serverNow>>
       /\ UNCHANGED <<engineVars, controllerVars, served, userRequests, admitted>>

\* DELETE /api/personas/:id: authenticateToken and deletePersona of
\* persona.controller.js up to its Promise.all, which starts the three deletions
serverDeletePersona(token, id) ==
    LET auth == authenticateToken(token)
        found == findById(id)
    IN /\ Request
       /\ IF auth.status # 0
          THEN res' = Answer("delete", auth.userId, id, NoQuery, auth.status, <<>>, None) /\ UNCHANGED inflight
          ELSE IF found = None
          THEN res' = Answer("delete", auth.userId, id, NoQuery, 404, <<>>, None) /\ UNCHANGED inflight
          ELSE IF ~canEdit(found[1], auth.userId)
          THEN res' = Answer("delete", auth.userId, id, NoQuery, 403, <<>>, None) /\ UNCHANGED inflight
          ELSE /\ inflight' = await(Continuation("delete", auth.userId, id,
                                                 {"ChatMessage", "ShareToken", "Persona"}, FALSE, 0, 0, 0))
               /\ res' = None
       /\ UNCHANGED <<serverData, serverNow>>
       /\ UNCHANGED <<engineVars, controllerVars, served, userRequests, admitted>>

\* one of the deletions of deletePersona's Promise.all runs; after the last one
\* the handler responds
deleteAssociated ==
    \E c \in BagToSet(inflight) : \E collection \in c.todo :
       /\ c.op = "delete"
       /\ Persona' = IF collection = "Persona" THEN { p \in Persona : p._id # c.id } ELSE Persona
       /\ ChatMessage' = IF collection = "ChatMessage"
                         THEN SelectSeq(ChatMessage, LAMBDA m : m.personaId # c.id) ELSE ChatMessage
       /\ ShareToken' = IF collection = "ShareToken"
                        THEN { t \in ShareToken : t.personaId # c.id } ELSE ShareToken
       /\ IF c.todo = {collection}
          THEN /\ inflight' = resume(c)
               /\ res' = Answer("delete", c.userId, c.id, NoQuery, 200, <<>>, None)
          ELSE /\ inflight' = resume(c) (+) SetToBag({[c EXCEPT !.todo = @ \ {collection}]})
               /\ res' = None
       /\ UNCHANGED <<personasCreated, nextId, serverNow, requests>>
       /\ UNCHANGED <<engineVars, controllerVars, served, userRequests, admitted>>

\* POST /api/personas/:id/chat: optionalAuth, validateRequest(chatMessageSchema)
\* and addChatMessage up to userMessage.save()
addChatMessage(token, id, body) ==
    LET userId == optionalAuth(token)
        found == findById(id)
    IN /\ Request
       /\ IF ~(validateRequest(chatMessageSchema, body) /\ validChatValues(body))
          THEN res' = Answer("chat", userId, id, NoQuery, 400, <<>>, None) /\ UNCHANGED inflight
          ELSE IF found = None
          THEN res' = Answer("chat", userId, id, NoQuery, 404, <<>>, None) /\ UNCHANGED inflight
          ELSE IF ~canView(found[1], userId)
          THEN res' = Answer("chat", userId, id, NoQuery, 403, <<>>, None) /\ UNCHANGED inflight
          ELSE /\ inflight' = await(Continuation("chat", userId, id, {"userMessage"},
                                                 body.serverReply, found[1].stats.chats, 0, 0))
               /\ res' = None
       /\ UNCHANGED <<serverData, serverNow>>
       /\ UNCHANGED <<engineVars, controllerVars, served, userRequests, admitted>>

\* addChatMessage: userMessage.save() completes; the handler responds unless a
\* server reply is requested and enabled
saveUserMessage ==
    \E c \in BagToSet(inflight) :
       /\ c.op = "chat" /\ c.todo = {"userMessage"}
       /\ ChatMessage' = Append(ChatMessage, [personaId |-> c.id, sender |-> "user"])
       /\ IF c.serverReply /\ (INFER_MODE = "rule" \/ INFER_MODE = "tfjs")
          THEN /\ inflight' = resume(c) (+) SetToBag({[c EXCEPT !.todo = {"personaResponse"}]})
               /\ res' = None
          ELSE /\ inflight' = resume(c)
               /\ res' = Answer("chat", c.userId, c.id, NoQuery, 201, <<>>, None)
       /\ UNCHANGED <<Persona, ShareToken, personasCreated, nextId, serverNow, requests>>
       /\ UNCHANGED <<engineVars, controllerVars, served, userRequests, admitted>>

\* addChatMessage: personaResponse.save() completes, the chats of the loaded
\* persona are incremented and saved, and the handler responds
savePersonaResponse ==
    \E c \in BagToSet(inflight) :
       /\ c.op = "chat" /\ c.todo = {"personaResponse"}
       /\ ChatMessage' = Append(ChatMessage, [personaId |-> c.id, sender |-> "persona"])
       /\ Persona' = { IF p._id = c.id THEN [p EXCEPT !.stats.chats = c.chats + 1] ELSE p : p \in Persona }
       /\ inflight' = resume(c)
       /\ res' = Answer("chat", c.userId, c.id, NoQuery, 201, <<>>, None)
       /\ UNCHANGED <<ShareToken, personasCreated, nextId, serverNow, requests>>
       /\ UNCHANGED <<engineVars, controllerVars, served, userRequests, admitted>>

\* POST /api/personas/:id/share: optionalAuth and createShareLink up to shareToken.save()
createShareLink(token, id) ==
    LET userId == optionalAuth(token)
        found == findById(id)
    IN /\ Request
       /\ IF found = None
          THEN res' = Answer("share", userId, id, NoQuery, 404, <<>>, None) /\ UNCHANGED inflight
          ELSE IF ~canView(found[1], userId)
          THEN res' = Answer("share", userId, id, NoQuery, 403, <<>>, None) /\ UNCHANGED inflight
          ELSE /\ inflight' = await(Continuation("share", userId, id, {"shareToken"},
                                                 FALSE, 0, serverNow + ExpiryDays, 0))
               /\ res' = None
       /\ UNCHANGED <<serverData, serverNow>>
       /\ UNCHANGED <<engineVars, controllerVars, served, userRequests, admitted>>

\* the status of the response to a request whose handler fails with err:
\* asyncHandler passes err to errorHandler, and Express's final handler
\* answers 500 if errorHandler throws
failedWith(err) == IF errorHandler(err).threw THEN 500 ELSE errorHandler(err).statusCode

\* createShareLink: shareToken.save() of the token generated completes, or fails
\* on the unique index of token with a duplicate key error
saveShareToken(generated) ==
    \E c \in BagToSet(inflight) :
       /\ c.op = "share"
       /\ IF \E t \in ShareToken : t.token = generated
          THEN /\ res' = Answer("share", c.userId, c.id, NoQuery, failedWith(DuplicateKeyError), <<>>, None)
               /\ UNCHANGED ShareToken
          ELSE /\ ShareToken' = ShareToken \cup
                      {[personaId |-> c.id, token |-> generated, visits |-> 0,
                        expiresAt |-> c.expiresAt, createdBy |-> c.userId, maxVisits |-> 0]}
               /\ res' = Answer("share", c.userId, c.id, NoQuery, 201, <<>>, None)
       /\ inflight' = resume(c)
       /\ UNCHANGED <<Persona, ChatMessage, personasCreated, nextId, serverNow, requests>>
       /\ UNCHANGED <<engineVars, controllerVars, served, userRequests, admitted>>

\* GET /api/personas/:id/export: optionalAuth, exportPersona
exportPersona(token, id) ==
    LET userId == optionalAuth(token)
        found == findById(id)
    IN /\ Request
       /\ IF found = None
          THEN res' = Answer("export", userId, id, NoQuery, 404, <<>>, None)
          ELSE IF ~canView(found[1], userId)
          THEN res' = Answer("export", userId, id, NoQuery, 403, <<>>, None)
          ELSE res' = Answer("export", userId, id, NoQuery, 200,
                             <<IF canEdit(found[1], userId) THEN found[1] ELSE toPublic(found[1])>>, None)
       /\ UNCHANGED <<serverData, inflight, serverNow>>
       /\ UNCHANGED <<engineVars, controllerVars, served, userRequests, admitted>>

\* shareTokenSchema.methods.isValid; maxVisits 0 stands for null (unlimited)
isValid(shareToken) ==
    IF shareToken.expiresAt < serverNow THEN FALSE
    ELSE IF shareToken.maxVisits # 0 /\ shareToken.visits >= shareToken.maxVisits THEN FALSE
    ELSE TRUE

\* GET /s/:token: the persona of a share link. The handler answers without
\* waiting for the two saves it starts: the save of the persona's views is
\* taken with the response, the save of the token's visits (the value
\* incrementVisits() has set on the document the handler loaded) reaches the
\* collection in a step of its own, saveVisits
getSharedPersona(value) ==
    LET shareToken == CHOOSE t \in ShareToken : t.token = value
        persona == findById(shareToken.personaId)
    IN /\ Request
       /\ IF ~\E t \in ShareToken : t.token = value
          THEN /\ res' = Answer("shared", None, 0, NoQuery, 404, <<>>, None)
               /\ UNCHANGED <<Persona, inflight, served>>
          ELSE IF ~isValid(shareToken)
          THEN /\ res' = Answer("shared", None, 0, NoQuery, 410, <<>>, None)
               /\ UNCHANGED <<Persona, inflight, served>>
          ELSE IF persona = None
          THEN /\ res' = Answer("shared", None, 0, NoQuery, 404, <<>>, None)
               /\ UNCHANGED <<Persona, inflight, served>>
          ELSE /\ inflight' = await(Continuation("visit", None, persona[1]._id, {value},
                                                 FALSE, 0, 0, shareToken.visits + 1))
               /\ Persona' = savedPaths(persona[1]._id, incrementViews(persona[1]))
               /\ res' = Answer("shared", None, persona[1]._id, NoQuery, 200,
                                <<toPublic(incrementViews(persona[1]))>>, None)
               /\ served' = [served EXCEPT ![value] = @ + 1]
       /\ UNCHANGED <<ChatMessage, ShareToken, personasCreated, nextId, serverNow>>
       /\ UNCHANGED <<engineVars, controllerVars, userRequests, admitted>>

\* incrementVisits: this.save() of a share token completes; it sets visits to
\* the value of the handler's document, and fails (the handler only logs it)
\* when the token has been deleted
saveVisits ==
    \E c \in BagToSet(inflight) :
       /\ c.op = "visit"
       /\ ShareToken' = { IF t.token \in c.todo THEN [t EXCEPT !.visits = c.visits] ELSE t : t \in ShareToken }
       /\ inflight' = resume(c)
       /\ res' = None
       /\ UNCHANGED <<Persona, ChatMessage, personasCreated, nextId, serverNow, requests, served>>
       /\ UNCHANGED <<engineVars, controllerVars, userRequests, admitted>>

\* time passes on the server, one token lifetime at a time (the clock is read
\* only to set and to test the expiry of share tokens)
serverTick ==
    /\ ShareToken # {}
    /\ serverNow < MaxServerTime
    /\ serverNow' = serverNow + ExpiryDays
    /\ res' = None
    /\ UNCHANGED <<serverData, inflight, requests>>
    /\ UNCHANGED <<engineVars, controllerVars, served, userRequests, admitted>>

\* personas stored before a request: a private persona as the tests store it
\* and an unlisted one as the seed script does, both of one user
seedPersonas ==
    { newPersona([name |-> "PrivateBot", tagline |-> "A private test persona", seedText |-> SeedText50,
                  ownerId |-> Some("u1"), meta |-> [visibility |-> "private"]], 1),
      newPersona([name |-> "UnlistedBot", tagline |-> "An unlisted test persona", seedText |-> SeedText50,
                  ownerId |-> Some("u1"), meta |-> [visibility |-> "unlisted"]], 2) }

\* a share link of the unlisted seed persona that admits one visit; the schema
\* provides for metadata.maxVisits, which no handler sets
seedShareTokens ==
    { [personaId |-> 2, token |-> "Xk3_9aQz", visits |-> 0, expiresAt |-> ExpiryDays,
       createdBy |-> Some("u1"), maxVisits |-> 1] }

\* the server starts on an empty database or on one that holds seedPersonas
\* and seedShareTokens
InitServer ==
    /\ EngineIdle
    /\ choices = <<>>
    /\ ControllerIdle
    /\ Persona \in {{}, seedPersonas}
    /\ nextId = Cardinality(Persona)
    /\ personasCreated = [u \in Users |-> IF u = "u1" THEN Cardinality(Persona) ELSE 0]
    /\ ChatMessage = <<>>
    /\ ShareToken = IF Persona = {} THEN {} ELSE seedShareTokens
    /\ inflight = EmptyBag
    /\ res = None
    /\ serverNow = 0
    /\ requests = 0
    /\ served = [value \in {"Xk3_9aQz", "b7-LmP2w"} |-> 0]
    /\ userRequests = [u \in {"u1", "u2"} |-> <<>>]
    /\ admitted = [u \in {"u1", "u2"} |-> <<>>]

NextServer ==
    \/ \E token \in Credentials, body \in CreateBodies : serverCreatePersona(token, body)
    \/ \E token \in Credentials, query \in ListQueries : getPersonas(token, query)
    \/ \E token \in Credentials, id \in RequestIds : getPersona(token, id)
    \/ \E token \in Credentials, id \in RequestIds, updates \in UpdateBodies : updatePersona(token, id, updates)
    \/ \E token \in Credentials, id \in RequestIds : serverDeletePersona(token, id)
    \/ deleteAssociated
    \/ \E token \in Credentials, id \in RequestIds, body \in ChatBodies : addChatMessage(token, id, body)
    \/ saveUserMessage
    \/ savePersonaResponse
    \/ \E token \in Credentials, id \in RequestIds : createShareLink(token, id)
    \/ \E generated \in ShareTokenValues : saveShareToken(generated)
    \/ \E token \in Credentials, id \in RequestIds : exportPersona(token, id)
    \/ \E value \in ShareTokenValues : getSharedPersona(value)
    \/ saveVisits
    \/ serverTick

SpecServer == InitServer /\ [][NextServer]_vars

(***************************************************************************)
(* Claims about the API server                                             *)
(***************************************************************************)
\* the last step answered a request of the operation op with status 200
Answered(op) == res # None /\ res[1].op = op /\ res[1].status = 200

\* Claim C13: for a request without authentication, every persona in the
\* response of the list operation has visibility public, whatever the query
\* parameters are.
C13_AnonymousListPublic ==
    (Answered("list") /\ res[1].userId = None) =>
        \A i \in 1..Len(res[1].docs) : res[1].docs[i].meta.visibility = "public"

\* Claim C14: for an authenticated requester who gives neither a visibility nor
\* an ownerId parameter, the list operation matches exactly the personas that
\* are public or owned by the requester (all of them are on the first page of
\* 20).
C14_AuthenticatedDefaultList ==
    (/\ Answered("list") /\ res[1].userId # None
     /\ res[1].query.visibility = None /\ res[1].query.ownerId = None
     /\ res[1].query.page = 1 /\ res[1].query.limit = 20) =>
        { res[1].docs[i]._id : i \in 1..Len(res[1].docs) } =
        { p._id : p \in { q \in Persona : q.meta.visibility = "public" \/ q.ownerId = res[1].userId } }

\* the requester with req.userId = userId owns the persona
IsOwner(persona, userId) == userId # None /\ persona.ownerId = userId

\* a step that answers a request of the operation op
Answers(op) == res' # None /\ res'[1].op = op

OwnersKept == \A p \in Persona : \E q \in Persona' : q._id = p._id /\ q.ownerId = p.ownerId

\* Claim C16: an update request changes the stored persona only when the
\* requester is authenticated and owns it; an unauthenticated request is
\* answered 401 and the request of a non-owner 403, and both leave every field
\* of every stored persona unchanged; no update request changes the ownerId or
\* the _id of a persona.
C16_UpdateOwnerOnly ==
    [][Answers("update") =>
         LET r == res'[1]
             found == findById(r.id)
         IN /\ Persona' # Persona => found # None /\ IsOwner(found[1], r.userId)
            /\ r.userId = None => r.status = 401 /\ Persona' = Persona
            /\ (r.userId # None /\ found # None /\ ~IsOwner(found[1], r.userId)) =>
                  r.status = 403 /\ Persona' = Persona
            /\ OwnersKept]_vars

\* Claim C16 as amended: as C16, except that the request of an authenticated
\* non-owner is answered 403 when its body passes validation and 400 when it
\* does not (validation runs before the ownership check); in both cases every
\* field of every stored persona is unchanged.
C16_UpdateOwnerOnlyValidated ==
    [][Answers("update") =>
         LET r == res'[1]
             found == findById(r.id)
         IN /\ Persona' # Persona => found # None /\ IsOwner(found[1], r.userId)
            /\ r.userId = None => r.status = 401 /\ Persona' = Persona
            /\ (r.userId # None /\ found # None /\ ~IsOwner(found[1], r.userId)) =>
                  /\ r.status = IF validateRequest(updatePersonaSchema, r.body[1]) THEN 403 ELSE 400
                  /\ Persona' = Persona
            /\ OwnersKept]_vars

\* an authenticated non-owner's update of a stored persona has been answered 403
C16_Witness ==
    /\ res # None /\ res[1].op = "update" /\ res[1].status = 403
    /\ \E p \in Persona : p._id = res[1].id /\ res[1].userId # None /\ ~IsOwner(p, res[1].userId)

\* a delete of the persona with this id has passed its checks and has not
\* responded yet
DeleteRunning(id) == \E c \in BagToSet(inflight) : c.op = "delete" /\ c.id = id

\* the persona with this id is stored, or is being deleted
StoredOrBeingDeleted(id) == (\E p \in Persona : p._id = id) \/ DeleteRunning(id)

\* every chat message and every share token references a persona that is
\* stored or being deleted
NoOrphans ==
    /\ \A i \in 1..Len(ChatMessage) : StoredOrBeingDeleted(ChatMessage[i].personaId)
    /\ \A t \in ShareToken : StoredOrBeingDeleted(t.personaId)

\* Claim C17: a delete request of a non-owner is answered 403 and leaves the
\* persona, its chat messages and its share tokens in place; once a delete by
\* the owner has completed, neither the persona nor a chat message or share
\* token that references it exists (a persona is removed by a delete only, and
\* ids are not used again: a missing persona with no delete running has been
\* deleted), also when chat and share-link requests interleave with the delete.
C17_DeleteComplete ==
    [][/\ Answers("delete") =>
            LET r == res'[1]
                found == findById(r.id)
            IN (r.userId # None /\ found # None /\ ~IsOwner(found[1], r.userId)) =>
                  /\ r.status = 403
                  /\ Persona' = Persona /\ ChatMessage' = ChatMessage /\ ShareToken' = ShareToken
       /\ (Answers("delete") /\ res'[1].status = 200) => ~\E p \in Persona' : p._id = res'[1].id
       /\ NoOrphans']_vars

\* Claim C18: a create request that stores a persona stores it with the
\* requester's id as ownerId when the requester is authenticated, and with
\* ownerId null when the requester is not; the response to an unauthenticated
\* requester carries an edit token.
C18_CreateOwner ==
    (res # None /\ res[1].op = "create" /\ res[1].status = 201) =>
        /\ Len(res[1].docs) = 1
        /\ res[1].docs[1] \in Persona
        /\ res[1].userId # None => res[1].docs[1].ownerId = res[1].userId
        /\ res[1].userId = None => res[1].docs[1].ownerId = None /\ res[1].editToken # None

\* a persona has been created for an unauthenticated requester
C18_Witness ==
    /\ res # None /\ res[1].op = "create" /\ res[1].status = 201
    /\ res[1].userId = None
    /\ res[1].editToken = Some(res[1].docs[1]._id)

\* the keys of a persona document that hold its seed data
SeedKeys == {"seedText", "analysisData"}

\* Claim C19: the seed text and the analysis data of a persona that is not
\* public are disclosed to its owner only: a response of the list, get, export
\* or share-link operation to another requester, anonymous or authenticated,
\* holds neither.
C19_SeedDataOwnerOnly ==
    (res # None /\ res[1].op \in {"list", "get", "export", "shared"}) =>
        \A i \in 1..Len(res[1].docs) :
            LET doc == res[1].docs[i]
            IN (doc.meta.visibility # "public" /\ DOMAIN doc \cap SeedKeys # {}) =>
                   IsOwner(doc, res[1].userId)

(***************************************************************************)
(* Further properties of the text analysis engine                          *)
(***************************************************************************)
\* the position of the first occurrence of x in arr
FirstSeen(arr, x) == CHOOSE i \in 1..Len(arr) : arr[i] = x /\ \A j \in 1..(i - 1) : arr[j] # x

\* x comes before y in the order "frequency descending, then first seen"
RanksBefore(tokens, x, y) ==
    \/ Occurrences(tokens, x) > Occurrences(tokens, y)
    \/ /\ Occurrences(tokens, x) = Occurrences(tokens, y)
       /\ FirstSeen(tokens, x) < FirstSeen(tokens, y)

\* C21: frequentWords is the list of the tokens with frequency greater than 1
\* and length greater than 3, at most 8 of them, by frequency descending and,
\* for equal frequency, by first occurrence in the token sequence.
C21_FrequentWords ==
    features # None =>
        LET tokens == tokenize(inText)
            words == features[1].vocabulary.frequentWords
            frequent == { tokens[i] : i \in { j \in 1..Len(tokens) :
                             Occurrences(tokens, tokens[j]) > 1 /\ Len(tokens[j]) > 3 } }
        IN /\ Len(words) = (IF Cardinality(frequent) < 8 THEN Cardinality(frequent) ELSE 8)
           /\ \A i \in 1..Len(words) : words[i] \in frequent
           /\ \A i, j \in 1..Len(words) : i < j => RanksBefore(tokens, words[i], words[j])
           /\ \A w \in frequent :
                 arrayIncludes(words, w) \/ \A i \in 1..Len(words) : RanksBefore(tokens, words[i], w)

\* x is n/d clamped to [0,1], for d > 0
IsClamped(x, n, d) ==
    /\ x.d > 0
    /\ IF n > d THEN x.n = x.d
       ELSE IF n < 0 THEN x.n = 0
       ELSE x.n * d = n * x.d

\* the runs of two or more consecutive uppercase letters of the text, wherever
\* they occur
UppercaseRuns(text) ==
    Cardinality({ i \in 1..Len(text) :
        /\ IsUpper(CharAt(text, i))
        /\ i = 1 \/ ~IsUpper(CharAt(text, i - 1))
        /\ i < Len(text) /\ IsUpper(CharAt(text, i + 1)) })

\* the words of the text (maximal runs of letters, digits and underscores)
\* that are two or more uppercase letters and nothing else
UppercaseWords(text) ==
    LET words == Runs(text, CharSet(text) \ WordChars)
    IN Cardinality({ k \in 1..Len(words) :
          Len(words[k]) >= 2 /\ \A i \in 1..Len(words[k]) : IsUpper(CharAt(words[k], i)) })

\* the raw energy score with a given count of uppercase runs
RawEnergy(text, tokens, uppercase) ==
    2 * Matches(tokens, highEnergyWords) - Matches(tokens, lowEnergyWords)
    + 2 * CountChar(text, "!") + uppercase

\* the raw energy score of every text, its last term being the count of the
\* words that consist of two or more uppercase letters
textEnergy == [text \in Texts |-> RawEnergy(text, textTokens[text], UppercaseWords(text))] @@ <<>>

TerminatedBy(text, mark) ==
    Cardinality({ i \in 1..(Len(text) - 1) :
        /\ CharAt(text, i) \notin SentenceEnd
        /\ CharAt(text, i + 1) = mark
        /\ \E j \in 1..i :
              /\ j = 1 \/ CharAt(text, j - 1) \in SentenceEnd
              /\ \A k \in j..i : CharAt(text, k) \notin SentenceEnd
              /\ NonBlankStr(SubSeq(text, j, i)) })

\* C23: for a text with n sentences of which k are terminated by "?" the
\* question ratio is k/n, and likewise the exclamation ratio for "!".
C23_Ratios ==
    features # None /\ features[1].sentenceCount > 0 =>
        LET n == features[1].sentenceCount
            q == features[1].questionRatio
            e == features[1].exclamationRatio
        IN /\ q.d > 0 /\ q.n * n = TerminatedBy(inText, "?") * q.d
           /\ e.d > 0 /\ e.n * n = TerminatedBy(inText, "!") * e.d

(***************************************************************************)
(* Further properties of the persona synthesizer                           *)
(***************************************************************************)
\* the elements of a sequence
Range(arr) == { arr[i] : i \in 1..Len(arr) }

\* the sentences of the text that, trimmed, have fewer than 8 words and more
\* than 10 characters, trimmed
ShortTrimmed(text) ==
    { trim(s) : s \in { t \in Range(splitSentences(text)) :
                          Len(Runs(trim(t), {" "})) < 8 /\ Len(trim(t)) > 10 } }

\* the sets that the phrases are drawn from, in order
PhraseSources(analysis, text) ==
    LET S(set) == <<set>>
    IN (IF Gt(analysis.energy, 7, 10) THEN S(Range(phraseTemplates.high_energy))
        ELSE IF Lt(analysis.energy, 3, 10) THEN S(Range(phraseTemplates.low_energy)) ELSE <<>>)
    \o (IF Gt(analysis.formality, 7, 10) THEN S(Range(phraseTemplates.formal))
        ELSE IF Lt(analysis.formality, 3, 10) THEN S(Range(phraseTemplates.informal)) ELSE <<>>)
    \o (IF analysis.sentiment.polarity = "positive" THEN S(Range(phraseTemplates.positive)) ELSE <<>>)
    \o (IF arrayIncludes(analysis.topics, "creativity") THEN S(Range(phraseTemplates.creativity)) ELSE <<>>)
    \o (IF arrayIncludes(analysis.topics, "technology") THEN S(Range(phraseTemplates.technology)) ELSE <<>>)
    \o (IF ShortTrimmed(text) # {} THEN S(ShortTrimmed(text)) ELSE <<>>)

\* C24: the signature phrases of a synthesized persona are the first four of:
\* one phrase of the energy set, one of the formality set, one of the positive
\* set, one of the creativity set, one of the technology set (each when its
\* condition holds) and, when the text has a sentence that trimmed has fewer
\* than 8 words and more than 10 characters, one such sentence trimmed; no
\* other sentence is extracted.
C24_SignaturePhrases ==
    Synthesized =>
        LET sources == PhraseSources(profile[1].analysisData, inText)
            phrases == profile[1].signaturePhrases
        IN /\ Len(phrases) = (IF Len(sources) < 4 THEN Len(sources) ELSE 4)
           /\ \A i \in 1..Len(phrases) : phrases[i] \in sources[i]

(***************************************************************************)
(* Further properties of the response generator                            *)
(***************************************************************************)
\* text begins with one of the openers, followed by a space
OpensWith(text, openers) ==
    \E o \in openers : Len(text) > Len(o) /\ SubSeq(text, 1, Len(o) + 1) = o \o " "

\* the first question word, in the order of their declaration, that is among
\* the tokens, or general
QuestionCategory(tokens) ==
    IF \A i \in 1..Len(questionWords) : ~arrayIncludes(tokens, questionWords[i]) THEN "general"
    ELSE questionWords[CHOOSE i \in 1..Len(questionWords) :
                          /\ arrayIncludes(tokens, questionWords[i])
                          /\ \A j \in 1..(i - 1) : ~arrayIncludes(tokens, questionWords[j])]

\* a response to an utterance with "?" has been generated
Answering == reply # None /\ includes(reply[1].utterance, "?")

\* C25 as stated: the response to an utterance with "?" opens with an opener
\* of the opener set of the utterance's question category (what, how, why,
\* when, where, who, which in declaration order, or general).
C25_OpenerOfCategory ==
    Answering =>
        LET category == QuestionCategory(tokenize(toLowerCase(reply[1].utterance)))
        IN /\ category \in DOMAIN answerTemplates
           /\ OpensWith(reply[1].response, Range(answerTemplates[category]))

\* C25 (amended): the opener is of the set of the category when the category
\* is what, how or why, and of the general set when it is when, where, who,
\* which or general.
C25_OpenerOfCategoryOrGeneral ==
    Answering =>
        LET category == QuestionCategory(tokenize(toLowerCase(reply[1].utterance)))
        IN OpensWith(reply[1].response,
                     IF category \in {"what", "how", "why"}
                     THEN Range(answerTemplates[category]) ELSE Range(answerTemplates.general))

\* an answer to an utterance whose first question word in utterance order is
\* not its first in declaration order
C25_Witness ==
    /\ Answering
    /\ reply[1].utterance = "why and how?"
    /\ OpensWith(reply[1].response, Range(answerTemplates.how))

\* text ends with " " and one of the endings
EndsWith(text, endings) ==
    \E e \in endings : Len(text) > Len(e) /\ SubSeq(text, Len(text) - Len(e), Len(text)) = " " \o e

\* the sentences built on the persona's favorite words
FavoriteWordSentences(persona) ==
    { "I think " \o w \o " is really important in this context." : w \in Range(persona.favoriteWords) }

GenericElaboration == "It's all about perspective and finding what works best!"

\* the elaboration of a response comes from the library of the given topic
\* when there is one with a library, else from the favorite words when there
\* are any, else it is the generic sentence
ElaboratesOn(response, persona, topic) ==
    IF topic # None /\ topic[1] \in DOMAIN elaborations
    THEN EndsWith(response, Range(elaborations[topic[1]]))
    ELSE IF Len(persona.favoriteWords) > 0
    THEN EndsWith(response, FavoriteWordSentences(persona))
    ELSE EndsWith(response, {GenericElaboration})

\* C26 as stated: the elaboration of an answer is drawn from the library of
\* the persona's first topic whenever that topic has a library, whatever the
\* utterance; failing that it is the favorite-word sentence, and failing
\* favorite words the generic sentence.
C26_DominantTopicElaboration ==
    Answering =>
        LET topics == profile[1].communicationStyle.topics
        IN ElaboratesOn(reply[1].response, profile[1],
                        IF Len(topics) > 0 THEN Some(topics[1]) ELSE None)

\* C26 (amended): the topic is the first of the persona's topics whose name is
\* contained in a token of the utterance; when there is no such topic or it
\* has no library, the favorite-word sentence or the generic sentence is used.
C26_RelevantTopicElaboration ==
    Answering =>
        LET topics == profile[1].communicationStyle.topics
            tokens == tokenize(toLowerCase(reply[1].utterance))
            named == { i \in 1..Len(topics) : \E j \in 1..Len(tokens) : includes(tokens[j], topics[i]) }
        IN ElaboratesOn(reply[1].response, profile[1],
                        IF named # {} THEN Some(topics[CHOOSE i \in named : \A j \in named : i <= j])
                        ELSE None)

\* an answer of a persona whose first topic has a library to an utterance that
\* names no topic: the favorite-word sentence is used
C26_Witness ==
    /\ Answering
    /\ Len(profile[1].communicationStyle.topics) > 0
    /\ profile[1].communicationStyle.topics[1] \in DOMAIN elaborations
    /\ EndsWith(reply[1].response, FavoriteWordSentences(profile[1]))

Contractions == {"that's", "can't", "won't", "i'm", "you're"}

ExpandedForms == {"that is", "cannot", "will not", "i am", "you are"}

\* text contains one of the forms, whatever the case of its letters
ContainsAny(text, forms) == \E f \in forms : includes(toLowerCase(text), f)

\* text contains one of the forms as whole words, whatever the case
ContainsWord(text, forms) ==
    \E f \in forms : \E i \in 1..(Len(text) - Len(f) + 1) :
        /\ WordBoundary(text, i) /\ WordBoundary(text, i + Len(f))
        /\ toLowerCase(SubSeq(text, i, i + Len(f) - 1)) = f

Formal(persona) == Gt(persona.communicationStyle.formality, 7, 10)

Informal(persona) == Lt(persona.communicationStyle.formality, 3, 10)

\* C27 as stated: the reply of a persona with formality > 0.7 contains none of
\* the contractions, and the reply of a persona with formality < 0.3 none of
\* the expanded forms, whatever the utterance and the draws.
C27_NoContractions ==
    reply # None =>
        /\ Formal(profile[1]) => ~ContainsAny(reply[1].text, Contractions)
        /\ Informal(profile[1]) => ~ContainsAny(reply[1].text, ExpandedForms)

\* the parts that applyPersonaStyle may append to the rewritten response: a
\* signature phrase, an emoji of the emoji style, both or none
Appendices(persona) ==
    LET phrases == {""} \cup { " " \o p : p \in Range(persona.signaturePhrases) }
        emojis == {""} \cup { " " \o e : e \in Range(SplitChar(persona.emojiStyle, " ")) }
    IN { p \o e : p \in phrases, e \in emojis }

\* C27 (amended): the reply is a rewritten response followed by the appended
\* signature phrase and emoji, if any; for formality > 0.7 the rewritten
\* response contains none of the contractions as whole words, for formality
\* < 0.3 none of the expanded forms; the appended phrase is not rewritten.
C27_NoContractionsBeforePhrase ==
    reply # None /\ (Formal(profile[1]) \/ Informal(profile[1])) =>
        \E a \in Appendices(profile[1]) :
            /\ Len(a) < Len(reply[1].text)
            /\ SubSeq(reply[1].text, Len(reply[1].text) - Len(a) + 1, Len(reply[1].text)) = a
            /\ LET rewritten == SubSeq(reply[1].text, 1, Len(reply[1].text) - Len(a))
               IN /\ Formal(profile[1]) => ~ContainsWord(rewritten, Contractions)
                  /\ Informal(profile[1]) => ~ContainsWord(rewritten, ExpandedForms)

\* a reply of a formal persona in which a contraction of the response was
\* expanded and a signature phrase with a contraction was appended
C27_Witness ==
    /\ reply # None
    /\ Formal(profile[1])
    /\ ContainsAny(reply[1].response, Contractions)
    /\ ContainsAny(reply[1].text, ExpandedForms)
    /\ ContainsAny(reply[1].text, Contractions)

(***************************************************************************)
(* Further properties of the controller                                    *)
(***************************************************************************)
\* C28: bot replies are appended in the order of the user messages that
\* triggered them: a reply that is appended answers the oldest message whose
\* reply is still pending, whatever delay each timer drew.
C28_RepliesInOrder ==
    [][ReplyStep => pendingReplies' = Tail(pendingReplies)]_vars

\* the controller during one page session: every handler but the reopening of
\* the page, with every timer that was set firing in the end
NextSession ==
    \/ \E bioInput \in BioTexts : GeneratePersonaStart(bioInput)
    \/ \E rnd \in ControllerStreams : GeneratePersonaFinish(rnd)
    \/ saveCurrentPersona
    \/ \E i \in 1..Len(savedPersonas) : loadPersona(i)
    \/ \E i \in 1..Len(savedPersonas) : chatPersona(i)
    \/ \E rnd \in ControllerStreams : startChat(rnd)
    \/ \E rnd \in ControllerStreams : startChatTimer(rnd)
    \/ \E chatInput \in ChatTexts : sendMessage(chatInput)
    \/ \E i \in 1..MaxPending, rnd \in ControllerStreams : replyTimer(i, rnd)
    \/ \E i \in 1..MaxSaved : deletePersona(i)
    \/ clearAllPersonas
    \/ \E rnd \in ControllerStreams : clearChat(rnd)
    \/ Tick

\* a timer set by sendMessage fires: the step of replyTimer, stated by what it
\* does to the timers (the browser runs the callback of every timer that is
\* due, so a pending timer does not wait for ever)
ReplyTimerFires == \E i \in 1..Len(pendingReplies) : pendingReplies' = RemoveAt(pendingReplies, i)

\* the delay of generatePersona ends: the step of GeneratePersonaFinish, stated
\* by what it does to the pending analysis
AnalysisTimerFires == pendingBio # None /\ pendingBio' = None

SpecSession ==
    /\ Init /\ [][NextSession]_vars
    /\ WF_pendingReplies(ReplyTimerFires)
    /\ WF_pendingBio(AnalysisTimerFires)

\* C29: every user message that sendMessage accepted is eventually followed by
\* exactly one bot reply appended to the history, whatever other user actions
\* come in between: the timer of every message that awaits its reply
\* eventually fires, and its firing appends a bot reply.
C29_EveryMessageAnswered ==
    /\ \A k \in 1..MaxPending : (Len(pendingReplies) = k) ~> (Len(pendingReplies) < k)
    /\ [][Len(pendingReplies') < Len(pendingReplies) => ReplyStep]_vars


(***************************************************************************)
(* Further properties of the API server                                    *)
(***************************************************************************)

\* the stored share tokens of a value (the index of token is unique)
TokensOf(value) == { t \in ShareToken : t.token = value }

\* the token is expired, or as many visits are stored as it admits
Spent(t) == t.expiresAt < serverNow \/ (t.maxVisits # 0 /\ t.visits >= t.maxVisits)

\* C30: a request for a share link is answered 404 when no token of the value
\* exists and 410 when the token is expired or its visit limit is reached, and
\* of the requests for a token with maxVisits = N at most N are ever answered
\* with the persona, whatever the interleaving of the requests
C30_ShareLinkLimit ==
    [][\A value \in ShareTokenValues :
          getSharedPersona(value) =>
             /\ TokensOf(value) = {} => res'[1].status = 404
             /\ \A t \in TokensOf(value) :
                   /\ Spent(t) => res'[1].status = 410
                   /\ t.maxVisits # 0 /\ res'[1].status = 200 => served'[value] <= t.maxVisits]_vars


(***************************************************************************)
(* The middleware: authRateLimit(maxRequests, windowMs) and errorHandler    *)
(*                                                                         *)
(* One authRateLimit instance with its own Map userRequests. Time is       *)
(* counted in milliseconds; req.user is None or Some(user). A request that *)
(* the middleware passes to next() is recorded in res with the status 0,   *)
(* as it has no response yet. A run lasts MaxLimiterTime milliseconds.     *)
(*                                                                         *)
(* An error passed to next() is a record of the properties errorHandler    *)
(* reads: name, code (undefined, a number or a string), statusCode (0 for  *)
(* undefined), keyValue and errors (None for undefined, else the keys and  *)
(* the messages) and message. When errorHandler throws, Express passes the *)
(* thrown error on; no error handler follows, so its final handler answers *)
(* 500: that response is recorded with the op "finalhandler".              *)
(***************************************************************************)
maxRequests == 2
windowMs == 2
MaxLimiterTime == 3

\* a variant of validRequests that also drops the oldest millisecond of the window
validRequestsShortWindow(timestamps, windowStart) ==
    SelectSeq(timestamps, LAMBDA timestamp : timestamp > windowStart + 1)

\* requests.filter(timestamp => timestamp > windowStart)
validRequests(timestamps, windowStart) ==
    SelectSeq(timestamps, LAMBDA timestamp : timestamp > windowStart)

\* the middleware returned by authRateLimit, run on a request of the user
authRateLimit(user) ==
    /\ IF user = None
       THEN /\ res' = Answer("rateLimit", user, 0, NoQuery, 0, <<>>, None)
            /\ UNCHANGED <<userRequests, admitted>>
       ELSE LET valid == validRequests(userRequests[user[1]], serverNow - windowMs)
            IN IF Len(valid) >= maxRequests
               THEN /\ res' = Answer("rateLimit", user, 0, NoQuery, 429, <<>>, None)
                    /\ UNCHANGED <<userRequests, admitted>>
               ELSE /\ userRequests' = [userRequests EXCEPT ![user[1]] = Append(valid, serverNow)]
                    /\ admitted' = [admitted EXCEPT ![user[1]] = Append(@, serverNow)]
                    /\ res' = Answer("rateLimit", user, 0, NoQuery, 0, <<>>, None)
    /\ UNCHANGED <<serverData, inflight, serverNow, requests, served>>
    /\ UNCHANGED <<engineVars, controllerVars>>

\* a millisecond passes
limiterTick ==
    /\ serverNow < MaxLimiterTime
    /\ serverNow' = serverNow + 1
    /\ res' = None
    /\ UNCHANGED <<serverData, inflight, requests, served, userRequests, admitted>>
    /\ UNCHANGED <<engineVars, controllerVars>>

\* next(err): the error reaches errorHandler, the only error handler
passError(err) ==
    LET sent == errorHandler(err)
    IN /\ res' = IF sent.threw
                 THEN Answer("finalhandler", None, 0, NoQuery, failedWith(err), <<>>, None)
                 ELSE Answer("error", None, 0, NoQuery, sent.statusCode, <<sent.message>>, None)
       /\ UNCHANGED <<serverData, inflight, serverNow, requests, served, userRequests, admitted>>
       /\ UNCHANGED <<engineVars, controllerVars>>

\* req.user of the requests: none, or one of the users
LimiterUsers == {None} \cup { Some(u) : u \in Users }

InitMiddleware ==
    /\ EngineIdle
    /\ choices = <<>>
    /\ ControllerIdle
    /\ ServerIdle

NextMiddleware ==
    \/ \E user \in LimiterUsers : authRateLimit(user)
    \/ \E err \in Errors : passError(err)
    \/ limiterTick

SpecMiddleware == InitMiddleware /\ [][NextMiddleware]_vars

\* the number of admissions of the user in the windowMs milliseconds that end
\* with the millisecond t, i.e. at the times t - windowMs + 1 .. t
AdmittedIn(u, t) ==
    Cardinality({ i \in 1..Len(admitted[u]) : admitted[u][i] > t - windowMs /\ admitted[u][i] <= t })

\* no window of windowMs milliseconds holds more than maxRequests admissions
\* of one user (a fullest window ends with an admission)
WindowRespected ==
    \A u \in Users : \A i \in 1..Len(admitted[u]) : AdmittedIn(u, admitted[u][i]) <= maxRequests

\* C31: of the requests of one authenticated user that the middleware admits,
\* no more than maxRequests fall into any window of windowMs milliseconds; a
\* request is answered 429 exactly when the user's own admissions of the
\* current window have reached maxRequests, and then nothing is recorded for
\* it; a request without a user is always admitted; a request of one user
\* changes nothing that is kept for another user.
C31_RateLimit ==
    [][\A user \in LimiterUsers :
          authRateLimit(user) =>
             /\ WindowRespected'
             /\ user = None => res'[1].status = 0
             /\ user # None => (res'[1].status = 429 <=> AdmittedIn(user[1], serverNow) >= maxRequests)
             /\ res'[1].status = 429 => UNCHANGED <<userRequests, admitted>>
             /\ \A v \in Users : Some(v) # user =>
                   userRequests'[v] = userRequests[v] /\ admitted'[v] = admitted[v]]_vars

\* a user has used a full window, was answered 429 in it, and was admitted
\* again once the window had passed, while the other user was admitted too
C31_Witness ==
    /\ Len(admitted["u1"]) > maxRequests
    /\ Len(admitted["u2"]) > 0
    /\ res # None /\ res[1].op = "rateLimit" /\ res[1].status = 429 /\ res[1].userId = Some("u1")


\* the status that C32 names for an error
StatusNamed(err) ==
    IF err.name = "CastError" THEN 400
    ELSE IF err.code = NumCode(11000) THEN 400
    ELSE IF err.name = "ValidationError" THEN 400
    ELSE IF err.name \in {"JsonWebTokenError", "TokenExpiredError"} THEN 401
    ELSE IF err.name \in {"MongoError", "MongoNetworkError"} THEN 503
    ELSE IF err.statusCode = 429 THEN 429
    ELSE IF err.code = StrCode("LIMIT_FILE_SIZE") THEN 413
    ELSE IF err.code.type = "string" /\ startsWith(err.code.str, "LIMIT_") THEN 400
    ELSE IF err.statusCode # 0 THEN err.statusCode
    ELSE 500

\* C32: errorHandler answers every error passed to it itself, without
\* throwing, with the status named for the error: 400 for a CastError, 400 and
\* '<field> already exists' for a duplicate key, 400 for a validation error,
\* 401 for JWT errors, 503 for database connection errors, 429 for rate-limit
\* errors, 413 for LIMIT_FILE_SIZE, 400 for other LIMIT_ codes, and otherwise
\* the error's statusCode or 500.
C32_ErrorStatus ==
    [][\A err \in Errors :
          passError(err) =>
             /\ res'[1].op = "error"
             /\ res'[1].status = StatusNamed(err)
             /\ err.code = NumCode(11000) =>
                   res'[1].docs = <<err.keyValue[1][1] \o " already exists">>]_vars


(***************************************************************************)
(* Further properties of the persona generation and the saved list         *)
(***************************************************************************)

DistinctIds(personas) ==
    \A i, j \in 1..Len(personas) : personas[i].id = personas[j].id => i = j

\* C34: savedPersonas never holds two entries with the same id; a save of a
\* current persona whose id is in the list replaces that entry in place and
\* leaves every other entry and the length alone, and after any save the
\* entry with the id of the current persona equals it, so that a second save
\* leaves the list as it is.
C34_NoDuplicateIds ==
    /\ [] DistinctIds(savedPersonas)
    /\ [][saveCurrentPersona =>
            LET before == findIndex(savedPersonas, currentPersona[1].id)
                after == findIndex(savedPersonas', currentPersona[1].id)
            IN /\ after > 0 /\ savedPersonas'[after] = currentPersona[1]
               /\ before > 0 =>
                     /\ after = before
                     /\ Len(savedPersonas') = Len(savedPersonas)
                     /\ \A i \in 1..Len(savedPersonas) : i # before => savedPersonas'[i] = savedPersonas[i]]_vars

\* a generated persona has been saved as the second entry of the list
C34_Witness ==
    /\ Len(savedPersonas) = 2
    /\ currentPersona # None
    /\ currentPersona[1].createdAt # StoredTime
    /\ savedPersonas[2] = currentPersona[1]


\* C35: after a save, a delete or a clear-all, the list that loadSavedPersonas
\* reads from local storage equals savedPersonas; a delete removes the entry
\* with the given id and no other, keeps the others in order, and sets
\* currentPersona to null only if the deleted persona was the current one.
C35_StorageMirrorsList ==
    [][/\ saveCurrentPersona \/ clearAllPersonas \/ (\E i \in 1..MaxSaved : deletePersona(i)) =>
             loadSavedPersonas(localStorage') = savedPersonas'
       /\ \A i \in 1..MaxSaved :
             deletePersona(i) =>
                /\ savedPersonas' = RemoveAt(savedPersonas, i)
                /\ currentPersona' \in {None, currentPersona}
                /\ currentPersona # None /\ currentPersona' = None =>
                      currentPersona[1] = savedPersonas[i]]_vars


(***************************************************************************)
(* Further properties of the persona synthesizer: tagline, emojis, traits  *)
(***************************************************************************)

\* the energy values on both sides of the thresholds of the synthesizer, and
\* the energy of a text without tokens
EnergyValues == {Num(0, 1), Num(29, 100), Num(3, 10), Num(6, 10), Num(61, 100), Num(7, 10),
                 Num(71, 100), Num(1, 1), NaN}

\* the topic lists with every primary topic of the six labels, or with none
PrimaryTopics == {<<>>} \cup { <<topicNames[i]>> : i \in 1..Len(topicNames) }
                        \cup { <<topicNames[i], topicNames[1]>> : i \in 2..Len(topicNames) }

\* the taglines that generateTagline returns for every primary topic and energy
everyTagline ==
    { generateTagline([topics |-> t, energy |-> e]) : t \in PrimaryTopics, e \in EnergyValues }

\* C36: generateTagline returns the default tagline for every primary topic
\* (or none) and every energy, and so the tagline of every synthesized
\* persona is the default tagline.
C36_DefaultTagline ==
    /\ everyTagline = {defaultTagline}
    /\ profile # None /\ Synthesized => profile[1].tagline = defaultTagline

\* a persona synthesized from a text with a primary topic and a high energy
C36_Witness ==
    /\ profile # None /\ Synthesized
    /\ features[1].topics # <<>> /\ features[1].topics[1] = "technology"
    /\ Gt(features[1].energy, 6, 10)
    /\ profile[1].tagline = defaultTagline


\* the six emojis of the energy bucket of an energy value, joined
BucketStyle(energy) ==
    join(IF Gt(energy, 7, 10) THEN emojiSets.high_energy
         ELSE IF Lt(energy, 3, 10) THEN emojiSets.low_energy
         ELSE emojiSets.moderate, " ")

\* feature vectors with every energy value, with and without each of the
\* topics, the polarities and favorite emojis that determineEmojiStyle reads
EmojiFeatures ==
    { [energy |-> e, topics |-> t, sentiment |-> [polarity |-> p], emojiUsage |-> [favorites |-> f]] :
        e \in EnergyValues,
        t \in {<<>>, <<"creativity">>, <<"technology", "lifestyle">>, <<"lifestyle", "creativity", "technology">>},
        p \in {"positive", "negative", "neutral"},
        f \in {<<>>, <<"e44">>, <<"e01", "e44", "e45">>} }

\* the emoji style of each of these feature vectors is that of its bucket
everyEmojiStyleOfBucket ==
    \A analysis \in EmojiFeatures : determineEmojiStyle(analysis) = BucketStyle(analysis.energy)

\* C37: the emojiStyle of a synthesized persona is the six emojis of the
\* bucket of its energy (> 0.7, < 0.3, otherwise) in the order of their
\* declaration, whatever the topics, the sentiment polarity and the favorite
\* emojis of the feature vector.
C37_EmojiStyleOfBucket ==
    /\ everyEmojiStyleOfBucket
    /\ profile # None /\ Synthesized => profile[1].emojiStyle = BucketStyle(features[1].energy)

\* a persona synthesized from a text with a topic that has emojis and a
\* positive sentiment
C37_Witness ==
    /\ profile # None /\ Synthesized
    /\ arrayIncludes(features[1].topics, "technology")
    /\ features[1].sentiment.polarity = "positive"
    /\ profile[1].emojiStyle = BucketStyle(features[1].energy)

FormalityTraits == {"Professional", "Casual", "Balanced"}

EnergyTraits == {"Energetic", "Calm", "Moderate"}

\* the number of entries of a list that belong to a set
CountIn(list, set) == Cardinality({ k \in 1..Len(list) : list[k] \in set })

TraitsOfAnalysis(traits) ==
    /\ ~arrayIncludes(traits, "Curious")
    /\ ~arrayIncludes(traits, "Expressive")
    /\ Len(traits) >= 2
    /\ traits[1] \in FormalityTraits
    /\ traits[2] \in EnergyTraits
    /\ CountIn(traits, FormalityTraits) = 1
    /\ CountIn(traits, EnergyTraits) = 1

\* C38: for every text, the feature vector of analyzeText has no sentence with
\* a '?' or a '!' in it, so both ratios are never above 0.3 and the traits
\* that mapTraits derives from it, and the traits of the persona synthesized
\* from it, never contain "Curious" or "Expressive"; the list starts with
\* exactly one formality trait and then exactly one energy trait
C38_TraitsOfAnalysis ==
    /\ features # None =>
          /\ LET sentences == textSentences[inText]
             IN \A k \in 1..Len(sentences) :
                   ~HasQuestionMark(sentences[k]) /\ ~HasExclamationMark(sentences[k])
          /\ ~Gt(features[1].questionRatio, 3, 10)
          /\ ~Gt(features[1].exclamationRatio, 3, 10)
          /\ TraitsOfAnalysis(mapTraits(features[1]))
    /\ Synthesized => TraitsOfAnalysis(profile[1].traits)

\* a persona synthesized from a text with several question marks in it
C38_Witness ==
    /\ Synthesized
    /\ features # None
    /\ HasQuestionMark(inText)
    /\ Len(splitSentences(inText)) >= 2
    /\ profile[1].traits = mapTraits(features[1])

(***************************************************************************)
(* Further properties of the API server: personas without an owner, the    *)
(* counter of created personas                                             *)
(***************************************************************************)
Ownerless == { p \in Persona : p.ownerId = None }

\* the fields of a document that an update or a deletion would change
Kept(p) ==
    \E q \in Persona' :
       /\ q._id = p._id
       /\ q.ownerId = None
       /\ q.name = p.name
       /\ q.tagline = p.tagline
       /\ q.seedText = p.seedText
       /\ q.analysisData = p.analysisData
       /\ q.meta = p.meta

\* the step works on the persona with this id: it answers a request of one of
\* the operations for it, or leaves one of them in flight
Granted(ops, id) ==
    \/ res' # None /\ res'[1].op \in ops /\ res'[1].id = id /\ res'[1].status \in {200, 201}
    \/ \E c \in BagToSet(inflight') : c.op \in ops /\ c.id = id

\* the status of the answer, if the step answers a request of the operation
\* for the persona with this id
AnswerOf(op, id) ==
    IF res' # None /\ res'[1].op = op /\ res'[1].id = id THEN res'[1].status ELSE 0

\* C39: a persona stored with ownerId null is never updated or deleted,
\* whatever credential the request carries (the edit token included): an
\* update or delete request for it by an authenticated user is answered 403
\* (an update with an invalid body 400), one without a valid token 401. If
\* the persona is private, no get, chat, share or export request for it is
\* granted either: each is answered 403 (a chat request with an invalid body
\* 400), the document keeps its counters and no chat message or share token
\* of it is stored
C39_OwnerlessPersona ==
    [][\A p \in Ownerless :
          /\ Kept(p)
          /\ ~Granted({"update", "delete"}, p._id)
          /\ AnswerOf("update", p._id) # 0 =>
                AnswerOf("update", p._id) =
                   IF res'[1].userId = None THEN 401
                   ELSE IF ~validateRequest(updatePersonaSchema, res'[1].body[1]) THEN 400
                   ELSE 403
          /\ AnswerOf("delete", p._id) # 0 =>
                AnswerOf("delete", p._id) = IF res'[1].userId = None THEN 401 ELSE 403
          /\ p.meta.visibility = "private" =>
                /\ p \in Persona'
                /\ ~Granted({"get", "chat", "share", "export"}, p._id)
                /\ AnswerOf("get", p._id) \in {0, 403}
                /\ AnswerOf("share", p._id) \in {0, 403}
                /\ AnswerOf("export", p._id) \in {0, 403}
                /\ AnswerOf("chat", p._id) \in {0, 400, 403}
                /\ \A i \in 1..Len(ChatMessage') : ChatMessage'[i].personaId # p._id
                /\ \A t \in ShareToken' : t.personaId # p._id]_vars

\* an update request of an authenticated user for a private persona without an
\* owner has been answered 403
C39_Witness ==
    /\ res # None
    /\ res[1].op = "update"
    /\ res[1].status = 403
    /\ res[1].userId # None
    /\ \E p \in Ownerless : p._id = res[1].id /\ p.meta.visibility = "private"

\* the personas that the step stores for the user
StoredFor(u) == { p \in Persona' : p.ownerId = Some(u) /\ \A q \in Persona : q._id # p._id }

\* C40: stats.personasCreated of a user is incremented by one exactly when a
\* persona is stored for that user; a create request whose persona the model
\* validation rejects leaves the counter as it is
C40_CounterCountsStored ==
    [][\A u \in Users :
          personasCreated'[u] = personasCreated[u] + Cardinality(StoredFor(u))]_vars

====
